---- MODULE Spec2Model ----
(***************************************************************************)
(* A model of kysely-rizzolver's foreign-key gathering engine: the join    *)
(* planner (_collectGatherData), the query context and its row parser      *)
(* (QueryContext.add/run, Selector.parse), the model collection, the       *)
(* recursive reconstructor (_baseToGatheredModel), gatherModelFks and the  *)
(* gatherOne / gatherOneX / gatherSome wrappers with their result objects. *)
(***************************************************************************)
EXTENDS Integers, Sequences, FiniteSets, TLC

(***************************************************************************)
(* JavaScript values.  Every value carries its typeof tag so that the      *)
(* code's truthiness and typeof tests are computed, not assumed.           *)
(***************************************************************************)
Null == [t |-> "null"]
Undefined == [t |-> "undefined"]
Num(n) == [t |-> "number", v |-> n]
Str(s) == [t |-> "string", v |-> s]

\* JS truthiness of a value (objects, i.e. models, are truthy).
Truthy(x) ==
    IF "t" \notin DOMAIN x THEN TRUE
    ELSE IF x.t \in {"null", "undefined"} THEN FALSE
    ELSE IF x.t = "number" THEN x.v # 0
    ELSE IF x.t = "string" THEN x.v # ""
    ELSE TRUE

\* typeof x === 'number'
IsNumber(x) == "t" \in DOMAIN x /\ x.t = "number"

\* x ?? d
Coalesce(x, d) == IF x = Null \/ x = Undefined THEN d ELSE x

\* obj[key] for a plain object: undefined when the key is absent.
Prop(obj, key) == IF key \in DOMAIN obj THEN obj[key] ELSE Undefined

\* The elements of a finite set of integers in ascending order.
RECURSIVE SortedSeq(_)
SortedSeq(S) ==
    IF S = {} THEN <<>>
    ELSE LET m == CHOOSE a \in S : \A b \in S : a <= b
         IN <<m>> \o SortedSeq(S \ {m})

(***************************************************************************)
(* Bounds and program constants.                                           *)
(***************************************************************************)
MAX_FK_GATHER_DEPTH == 3

\* How many writes the database receives before the gather call.
MaxDamage == 1

ValidFkDepth == 0..MAX_FK_GATHER_DEPTH

(***************************************************************************)
(* Schemas: tableToColumns and fkDefs as the builders produce them.  The   *)
(* edges of a table are kept in insertion order (Object.values order).     *)
(***************************************************************************)
FkEntry(fkName, myColumn, otherTable, otherColumn, isNullable) ==
    [fkName |-> fkName, myColumn |-> myColumn, otherTable |-> otherTable,
     otherColumn |-> otherColumn, isNullable |-> isNullable]

\* "blog" and "circular" are the schemas of the tests; "tree" is a table that
\* references itself.  A fourth schema, "keyed", has an edge to a numeric column
\* that is not `id`, which the foreign-key builder accepts as toColumn.  A
\* fifth, "threaded", is the blog with a comment table on top, so that a table
\* with two edges (post) is also reached through an edge.
SchemaNames == {"blog", "circular", "tree"}

\* rizzolver._types.tableToColumns
TableToColumns(s) ==
    IF s = "blog"
    THEN [user |-> <<"id", "name", "avatar_img_id">>,
          media_item |-> <<"id", "url">>,
          post |-> <<"id", "author_id", "title", "banner_img_id">>]
    ELSE IF s = "circular"
    THEN [topic |-> <<"id", "name", "main_post_id">>,
          post |-> <<"id", "title", "topic_id">>]
    ELSE IF s = "tree"
    THEN [category |-> <<"id", "name", "parent_id">>]
    ELSE IF s = "keyed"
    THEN [user |-> <<"id", "name", "avatar_code">>,
          media_item |-> <<"id", "code", "url">>]
    ELSE [user |-> <<"id", "name", "avatar_img_id">>,
          media_item |-> <<"id", "url">>,
          post |-> <<"id", "author_id", "title", "banner_img_id">>,
          comment |-> <<"id", "post_id", "author_id">>]

\* rizzolver._types.fkDefs; a table without edges has no key.
FkDefs(s) ==
    IF s = "blog"
    THEN [user |-> <<FkEntry("avatar_img", "avatar_img_id", "media_item", "id", TRUE)>>,
          post |-> <<FkEntry("author", "author_id", "user", "id", FALSE),
                     FkEntry("banner_img", "banner_img_id", "media_item", "id", TRUE)>>]
    ELSE IF s = "circular"
    THEN [topic |-> <<FkEntry("main_post", "main_post_id", "post", "id", FALSE)>>,
          post |-> <<FkEntry("topic", "topic_id", "topic", "id", TRUE)>>]
    ELSE IF s = "tree"
    THEN [category |-> <<FkEntry("parent", "parent_id", "category", "id", TRUE)>>]
    ELSE IF s = "keyed"
    THEN [user |-> <<FkEntry("avatar", "avatar_code", "media_item", "code", TRUE)>>]
    ELSE [user |-> <<FkEntry("avatar_img", "avatar_img_id", "media_item", "id", TRUE)>>,
          post |-> <<FkEntry("author", "author_id", "user", "id", FALSE),
                     FkEntry("banner_img", "banner_img_id", "media_item", "id", TRUE)>>,
          comment |-> <<FkEntry("post", "post_id", "post", "id", FALSE),
                        FkEntry("author", "author_id", "user", "id", FALSE)>>]

Tables(s) == DOMAIN TableToColumns(s)

\* fkDefs[table] ?? {}
MyFkDefs(fkDefs, table) == IF table \in DOMAIN fkDefs THEN fkDefs[table] ELSE <<>>

\* The foreign-key columns of a table.
FkColumns(s, table) ==
    {MyFkDefs(FkDefs(s), table)[i].myColumn : i \in 1..Len(MyFkDefs(FkDefs(s), table))}

(***************************************************************************)
(* The database: table -> id -> row.  BaseDb is the content the tests      *)
(* insert; the Db actions below are the writes the tests perform with      *)
(* foreign-key enforcement switched off.                                   *)
(***************************************************************************)
BaseDb(s) ==
    IF s = "blog"
    THEN [media_item |-> (1 :> [id |-> Num(1), url |-> Str("image1.png")]) @@
                         (2 :> [id |-> Num(2), url |-> Str("image2.png")]),
          user |-> (1 :> [id |-> Num(1), name |-> Str("Alice"), avatar_img_id |-> Num(1)]) @@
                   (2 :> [id |-> Num(2), name |-> Str("Charlie"), avatar_img_id |-> Null]),
          post |-> (1 :> [id |-> Num(1), author_id |-> Num(1), title |-> Str("Main Post"),
                          banner_img_id |-> Num(2)]) @@
                   (2 :> [id |-> Num(2), author_id |-> Num(1), title |-> Str("Other Post"),
                          banner_img_id |-> Null])]
    ELSE IF s = "circular"
    THEN [topic |-> (1 :> [id |-> Num(1), name |-> Str("Interesting Topic"),
                           main_post_id |-> Num(1)]) @@
                    (2 :> [id |-> Num(2), name |-> Str("Other Topic"),
                           main_post_id |-> Num(1)]),
          post |-> (1 :> [id |-> Num(1), title |-> Str("Main Post"), topic_id |-> Num(1)]) @@
                   (2 :> [id |-> Num(2), title |-> Str("Other Post"), topic_id |-> Null])]
    ELSE IF s = "tree"
    THEN [category |-> (1 :> [id |-> Num(1), name |-> Str("Root"), parent_id |-> Num(1)]) @@
                       (2 :> [id |-> Num(2), name |-> Str("Leaf"), parent_id |-> Num(1)])]
    ELSE IF s = "keyed"
    THEN [media_item |-> (1 :> [id |-> Num(1), code |-> Num(7), url |-> Str("image1.png")]) @@
                         (2 :> [id |-> Num(2), code |-> Num(8), url |-> Str("image2.png")]),
          user |-> (1 :> [id |-> Num(1), name |-> Str("Alice"), avatar_code |-> Num(7)]) @@
                   (2 :> [id |-> Num(2), name |-> Str("Charlie"), avatar_code |-> Null])]
    ELSE [media_item |-> (1 :> [id |-> Num(1), url |-> Str("image1.png")]) @@
                         (2 :> [id |-> Num(2), url |-> Str("image2.png")]),
          user |-> (1 :> [id |-> Num(1), name |-> Str("Alice"), avatar_img_id |-> Num(1)]) @@
                   (2 :> [id |-> Num(2), name |-> Str("Charlie"), avatar_img_id |-> Null]),
          post |-> (1 :> [id |-> Num(1), author_id |-> Num(1), title |-> Str("Main Post"),
                          banner_img_id |-> Num(2)]) @@
                   (2 :> [id |-> Num(2), author_id |-> Num(1), title |-> Str("Other Post"),
                          banner_img_id |-> Null]),
          comment |-> (1 :> [id |-> Num(1), post_id |-> Num(1), author_id |-> Num(2)]) @@
                      (2 :> [id |-> Num(2), post_id |-> Num(2), author_id |-> Num(1)])]

\* The ids of the rows of BaseDb.
RowIds == {1, 2}

\* The values a write stores in a foreign-key column to clear the reference; a
\* reference to a missing row comes from deleting the referenced row.
FkValues == {Null, Num(0)}

(***************************************************************************)
(* Model collection (newModelCollection): table -> String(id) -> model.    *)
(* Object keys are strings, as in JavaScript.                              *)
(***************************************************************************)
EmptyObj == [k \in {} |-> Null]

\* newModelCollection(init): const collection = { ...init }
NewModelCollection(init) == init

McAddKeepFirst(collection, table, selectable) ==
    IF \/ ~Truthy(selectable)
       \/ "id" \notin DOMAIN selectable
       \/ ~Truthy(selectable["id"])
       \/ ~IsNumber(selectable["id"])
    THEN collection
    ELSE LET entries == IF table \in DOMAIN collection THEN collection[table] ELSE EmptyObj
             key == ToString(selectable["id"].v)
         IN (table :> (entries @@ (key :> selectable))) @@ collection

\* add(table, selectable)
McAdd(collection, table, selectable) ==
    IF \/ ~Truthy(selectable)
       \/ "id" \notin DOMAIN selectable
       \/ ~Truthy(selectable["id"])
       \/ ~IsNumber(selectable["id"])
    THEN collection
    ELSE LET entries == IF table \in DOMAIN collection THEN collection[table] ELSE EmptyObj
             key == ToString(selectable["id"].v)
         IN (table :> ((key :> selectable) @@ entries)) @@ collection

\* The keys of an object in the order Object.entries visits them: integer-like
\* keys ascending.
ObjNumKeys(obj) == SortedSeq({n \in -9..9 : ToString(n) \in DOMAIN obj})

\* The table names of a collection in a fixed visiting order.
RECURSIVE KeySeq(_)
KeySeq(S) ==
    IF S = {} THEN <<>>
    ELSE LET k == CHOOSE a \in S : TRUE IN <<k>> \o KeySeq(S \ {k})

RECURSIVE McAddAll(_, _, _, _)
McAddAll(collection, table, entries, ids) ==
    IF ids = <<>> THEN collection
    ELSE McAddAll(McAdd(collection, table, entries[ToString(Head(ids))]), table, entries,
                  Tail(ids))

\* addCollection(other): add every model of every table of other.
RECURSIVE McAddTables(_, _, _)
McAddTables(collection, other, tables) ==
    IF tables = <<>> THEN collection
    ELSE LET tb == Head(tables)
         IN McAddTables(McAddAll(collection, tb, other[tb], ObjNumKeys(other[tb])), other,
                        Tail(tables))

McAddCollection(collection, other) == McAddTables(collection, other, KeySeq(DOMAIN other))

\* get(table, id) with a table given: the id map when !id, else the entry or undefined.
McGet(collection, table, id) ==
    IF ~Truthy(id)
    THEN IF table \in DOMAIN collection THEN collection[table] ELSE EmptyObj
    ELSE IF table \in DOMAIN collection
         THEN Prop(collection[table], ToString(id.v))
         ELSE Undefined

\* Whether (table, id) has an entry.
McHas(collection, table, n) ==
    table \in DOMAIN collection /\ ToString(n) \in DOMAIN collection[table]

(***************************************************************************)
(* Selector (newSelector) and its row parser.                              *)
(***************************************************************************)
\* `_${tableAlias}_${col}`
ColumnAlias(tableAlias, col) == "_" \o tableAlias \o "_" \o col

NewSelector(rz, tableName, tableAlias, columnNames) ==
    [table |-> [name |-> tableName, alias |-> tableAlias],
     cols |-> [names |-> columnNames,
               aliases |-> [j \in 1..Len(columnNames) |->
                              ColumnAlias(tableAlias, columnNames[j])]]]

\* A row parser that leaves out the columns the row does not have.
RowToModelSkipsMissing(selector, result) ==
    IF ~Truthy(result) \/ ~Truthy(Prop(result, ColumnAlias(selector.table.alias, "id")))
    THEN Undefined
    ELSE [col \in {selector.cols.names[i] : i \in {j \in 1..Len(selector.cols.names) :
                      selector.cols.aliases[j] \in DOMAIN result}} |->
            Prop(result, selector.cols.aliases[
                CHOOSE i \in 1..Len(selector.cols.names) : selector.cols.names[i] = col])]

\* _rowToModel(result)
RowToModel(selector, result) ==
    IF ~Truthy(result) \/ ~Truthy(Prop(result, ColumnAlias(selector.table.alias, "id")))
    THEN Undefined
    ELSE [col \in {selector.cols.names[i] : i \in 1..Len(selector.cols.names)} |->
            Prop(result, selector.cols.aliases[
                CHOOSE i \in 1..Len(selector.cols.names) : selector.cols.names[i] = col])]

\* parse(rows): one entry per row, in order.
SelectorParse(selector, rows) ==
    [i \in 1..Len(rows) |-> [row |-> rows[i], model |-> RowToModel(selector, rows[i])]]

(***************************************************************************)
(* Query context (newQueryContext): the selectors in insertion order.      *)
(***************************************************************************)
NewQueryContext == <<>>

NumSelectors(qc) == Len(qc)

AliasInUseNever(qc, alias) == FALSE
AliasInUse(qc, alias) == \E i \in 1..Len(qc) : qc[i].table.alias = alias

\* add(table, alias, keys): keys ?? tableToColumns[table]; throws on a used alias.
QcAddKeys(rz, qc, table, alias, keys) ==
    IF alias = ""
    THEN [threw |-> TRUE, qc |-> qc,
          error |-> [name |-> "Error",
                     message |-> "Must provide an alias when calling QueryContext.add with a table name"]]
    ELSE IF AliasInUse(qc, alias)
    THEN [threw |-> TRUE, qc |-> qc,
          error |-> [name |-> "Error",
                     message |-> "Alias \"" \o alias \o "\" is already in use"]]
    ELSE [threw |-> FALSE,
          qc |-> Append(qc, NewSelector(rz, table, alias,
                                        IF keys = Undefined THEN rz.tableToColumns[table]
                                        ELSE keys.items))]

\* add(table, alias)
QcAdd(rz, qc, table, alias) == QcAddKeys(rz, qc, table, alias, Undefined)

\* cols(): every selector's `alias.col as _alias_col` expressions, in order.
RECURSIVE QcCols(_)
QcCols(qc) ==
    IF qc = <<>> THEN <<>>
    ELSE [j \in 1..Len(Head(qc).cols.names) |->
            [alias |-> Head(qc).table.alias, col |-> Head(qc).cols.names[j],
             as |-> Head(qc).cols.aliases[j]]]
         \o QcCols(Tail(qc))

(***************************************************************************)
(* Join planner (_collectGatherData).  A gather item is the LEFT JOIN of   *)
(* `otherTable as otherAlias` on myAlias.myColumn = otherAlias.otherColumn.*)
(***************************************************************************)
FkAliasFixed(n) == "fk"
FkAlias(n) == "fk" \o ToString(n)

\* if (depthLeft <= 0) return qb;
PlanStopsLate(depthLeft) == depthLeft < 0
PlanStops(depthLeft) == depthLeft <= 0

RECURSIVE CollectGatherData(_, _, _, _, _)
RECURSIVE CollectGatherLoop(_, _, _, _, _, _, _)

\* A loop that works out myAlias again at each edge, from the selectors added so far.
CollectGatherLoopRecomputes(rz, table, myAlias, i, qb, depthLeft, result) ==
    IF i > Len(MyFkDefs(rz.fkDefs, table))
    THEN [threw |-> FALSE, qb |-> qb, result |-> result]
    ELSE LET fkDef == MyFkDefs(rz.fkDefs, table)[i]
             otherAlias == FkAlias(NumSelectors(qb))
             added == QcAdd(rz, qb, fkDef.otherTable, otherAlias)
             item == [table |-> fkDef.otherTable, tableAlias |-> otherAlias,
                      myAlias |-> IF NumSelectors(qb) = 1 THEN table
                                  ELSE FkAlias(NumSelectors(qb) - 1),
                      myColumn |-> fkDef.myColumn,
                      otherColumn |-> fkDef.otherColumn]
         IN IF added.threw
            THEN [threw |-> TRUE, error |-> added.error, qb |-> qb, result |-> result]
            ELSE LET sub == CollectGatherData(rz, fkDef.otherTable, added.qc,
                                              depthLeft - 1, Append(result, item))
                 IN IF sub.threw THEN sub
                    ELSE CollectGatherLoop(rz, table, myAlias, i + 1, sub.qb, depthLeft,
                                           sub.result)

\* The for loop over Object.values(myFkDefs), from edge i on.
CollectGatherLoop(rz, table, myAlias, i, qb, depthLeft, result) ==
    IF i > Len(MyFkDefs(rz.fkDefs, table))
    THEN [threw |-> FALSE, qb |-> qb, result |-> result]
    ELSE LET fkDef == MyFkDefs(rz.fkDefs, table)[i]
             otherAlias == FkAlias(NumSelectors(qb))
             added == QcAdd(rz, qb, fkDef.otherTable, otherAlias)
             item == [table |-> fkDef.otherTable, tableAlias |-> otherAlias,
                      myAlias |-> myAlias, myColumn |-> fkDef.myColumn,
                      otherColumn |-> fkDef.otherColumn]
         IN IF added.threw
            THEN [threw |-> TRUE, error |-> added.error, qb |-> qb, result |-> result]
            ELSE LET sub == CollectGatherData(rz, fkDef.otherTable, added.qc,
                                              depthLeft - 1, Append(result, item))
                 IN IF sub.threw THEN sub
                    ELSE CollectGatherLoop(rz, table, myAlias, i + 1, sub.qb, depthLeft,
                                           sub.result)

CollectGatherData(rz, table, qb, depthLeft, result) ==
    IF PlanStops(depthLeft)
    THEN [threw |-> FALSE, qb |-> qb, result |-> result]
    ELSE LET myAlias == IF NumSelectors(qb) = 1 THEN table
                        ELSE FkAlias(NumSelectors(qb) - 1)
         IN CollectGatherLoop(rz, table, myAlias, 1, qb, depthLeft, result)

(***************************************************************************)
(* The query executor (Kysely over the database): SELECT cols FROM table   *)
(* LEFT JOIN ... WHERE where.  A joined row maps each table alias to the   *)
(* row bound to it, or to Null where the LEFT JOIN found none.             *)
(***************************************************************************)
\* SQL equality used by the ON clause: NULL equals nothing.
SqlEq(a, b) == a # Null /\ b # Null /\ a = b

\* The rows of `other` that the ON clause matches for one joined row, by ascending id.
JoinMatches(database, joined, item) ==
    IF joined[item.myAlias] = Null THEN <<>>
    ELSE LET mine == joined[item.myAlias][item.myColumn]
             ids == {id \in DOMAIN database[item.table] :
                        SqlEq(mine, database[item.table][id][item.otherColumn])}
         IN [k \in 1..Cardinality(ids) |-> database[item.table][SortedSeq(ids)[k]]]

\* One LEFT JOIN step applied to one joined row.
LeftJoinRow(database, joined, item) ==
    LET matches == JoinMatches(database, joined, item)
    IN IF matches = <<>> THEN <<(item.tableAlias :> Null) @@ joined>>
       ELSE [k \in 1..Len(matches) |-> (item.tableAlias :> matches[k]) @@ joined]

RECURSIVE LeftJoinRows(_, _, _)
LeftJoinRows(database, joinedRows, item) ==
    IF joinedRows = <<>> THEN <<>>
    ELSE LeftJoinRow(database, Head(joinedRows), item)
         \o LeftJoinRows(database, Tail(joinedRows), item)

RECURSIVE LeftJoinAll(_, _, _)
LeftJoinAll(database, joinedRows, gatherItems) ==
    IF gatherItems = <<>> THEN joinedRows
    ELSE LeftJoinAll(database, LeftJoinRows(database, joinedRows, Head(gatherItems)),
                     Tail(gatherItems))

\* The columns one selector selects from a joined row: `_alias_col` -> value
\* (a column of an alias the LEFT JOIN left unmatched is SQL NULL, read as null).
SelectAliasCols(joined, selector) ==
    [a \in {selector.cols.aliases[j] : j \in 1..Len(selector.cols.aliases)} |->
        IF joined[selector.table.alias] = Null THEN Null
        ELSE joined[selector.table.alias][selector.cols.names[
                 CHOOSE j \in 1..Len(selector.cols.aliases) : selector.cols.aliases[j] = a]]]

\* select(qb.cols()) applied to one joined row.
RECURSIVE SelectCols(_, _)
SelectCols(joined, qc) ==
    IF qc = <<>> THEN EmptyObj
    ELSE SelectAliasCols(joined, Head(qc)) @@ SelectCols(joined, Tail(qc))

\* ky.execute(): the raw rows; `where` is the set of root ids the predicate accepts.
ExecuteQuery(database, table, gatherItems, qc, where) ==
    LET roots == SortedSeq({id \in DOMAIN database[table] : id \in where})
        base == [k \in 1..Len(roots) |-> (table :> database[table][roots[k]])]
        joinedRows == LeftJoinAll(database, base, gatherItems)
    IN [k \in 1..Len(joinedRows) |-> SelectCols(joinedRows[k], qc)]

(***************************************************************************)
(* QueryContext.run: parse the rows with every selector, collect the       *)
(* models, and pair each row with its per-alias models.                    *)
(***************************************************************************)
RECURSIVE RunAddModels(_, _, _)
RunAddModels(modelCollection, tableName, selectorResult) ==
    IF selectorResult = <<>> THEN modelCollection
    ELSE RunAddModels(IF ~Truthy(Head(selectorResult).model) THEN modelCollection
                      ELSE McAdd(modelCollection, tableName, Head(selectorResult).model),
                      tableName, Tail(selectorResult))

RECURSIVE RunCollect(_, _, _)
RunCollect(modelCollection, qc, rows) ==
    IF qc = <<>> THEN modelCollection
    ELSE RunCollect(RunAddModels(modelCollection, Head(qc).table.name,
                                 SelectorParse(Head(qc), rows)),
                    Tail(qc), rows)

QcRun(qc, rows) ==
    LET selectorResults == [k \in 1..Len(qc) |-> SelectorParse(qc[k], rows)]
        aliases == {qc[k].table.alias : k \in 1..Len(qc)}
        indexOf == [a \in aliases |-> CHOOSE k \in 1..Len(qc) : qc[k].table.alias = a]
    IN [rows |-> [i \in 1..Len(rows) |->
                    [row |-> rows[i],
                     selectable |-> [a \in aliases |-> selectorResults[indexOf[a]][i].model]]],
        models |-> RunCollect(NewModelCollection(EmptyObj), qc, rows)]

(***************************************************************************)
(* Gather reconstructor (_baseToGatheredModel).  A call either returns a   *)
(* value (a gathered model or null) or throws.                             *)
(***************************************************************************)
Returned(v) == [threw |-> FALSE, value |-> v]
Threw(e) == [threw |-> TRUE, error |-> e]

\* getX(table, id): get, and throw when the result is falsy.
McGetX(collection, table, id) ==
    LET result == McGet(collection, table, id)
    IN IF ~Truthy(result)
       THEN Threw([name |-> "Error",
                   message |-> "Model not found in ModelCollection for table " \o table
                               \o " with id " \o ToString(id.v)])
       ELSE Returned(result)

\* new ModelFkGatherError(table, id, reason): the message names all of these.
ModelFkGatherError(table, id, reason) ==
    [name |-> "ModelFkGatherError", table |-> table, id |-> id, reason |-> reason]

\* { __fkDepth: depth, __table: table, ...baseModel }
\* Object identity.  collection.get(table, id) hands out the one object stored
\* under (table, id); the object literal `{ __fkDepth, __table, ...baseModel }`
\* evaluates to a new object each time it is evaluated, that is once per call
\* of _baseToGatheredModel, identified here by the call's position `here`
\* (the root row and the path of slots that led to the call).
EntryRef(table, id) == [site |-> "collection", table |-> table, id |-> id]

NewObjectInPlace(here, baseRef) == baseRef
NewObject(here, baseRef) == [site |-> "gather", at |-> here]

TagModelOffByOne(depth, table, baseModel) ==
    [k \in DOMAIN baseModel \cup {"__fkDepth", "__table"} |->
        IF k \in DOMAIN baseModel THEN baseModel[k]
        ELSE IF k = "__fkDepth" THEN Num(depth + 1) ELSE Str(table)]
TagModel(depth, table, baseModel) ==
    [k \in DOMAIN baseModel \cup {"__fkDepth", "__table"} |->
        IF k \in DOMAIN baseModel THEN baseModel[k]
        ELSE IF k = "__fkDepth" THEN Num(depth) ELSE Str(table)]

\* gatheredModel[fkName] = value
SetSlot(gatheredModel, fkName, value) == (fkName :> value) @@ gatheredModel

\* if (depth <= 0) return the bare model
ReconstructStopsLate(depth) == depth < 0
ReconstructStops(depth) == depth <= 0

\* The switch on onInvalidModel for an invalid reference: what the routine does.
InvalidActionThrowKeeps(onInvalidModel) ==
    IF onInvalidModel \in {"omit", "null"} THEN "return_null" ELSE "continue"
InvalidActionKeepOmits(onInvalidModel) ==
    IF onInvalidModel \in {"omit", "null", "keep"} THEN "return_null" ELSE "throw"
InvalidActionNullKeeps(onInvalidModel) ==
    IF onInvalidModel = "omit" THEN "return_null"
    ELSE IF onInvalidModel = "throw" THEN "throw"
    ELSE "continue"
InvalidAction(onInvalidModel) ==
    IF onInvalidModel \in {"omit", "null"} THEN "return_null"
    ELSE IF onInvalidModel = "throw" THEN "throw"
    ELSE "continue"

\* fkValue !== null && fkValue !== undefined && typeof fkValue !== 'number'
IsInvalidFkValueNever(fkValue) == FALSE
IsInvalidFkValue(fkValue) == fkValue # Null /\ fkValue # Undefined /\ ~IsNumber(fkValue)

\* expectsOtherModel: fkValue !== null && fkValue !== undefined && fkValue !== 0
ExpectsOtherModelForZero(fkValue) == fkValue # Null /\ fkValue # Undefined
ExpectsOtherModel(fkValue) == fkValue # Null /\ fkValue # Undefined /\ fkValue # Num(0)

RECURSIVE BaseToGatheredModel(_, _, _, _, _, _)
RECURSIVE GatherFkLoop(_, _, _, _, _, _, _, _)

\* The for loop over Object.entries(myFkDefs), from edge i on.
GatherFkLoop(fkDefs, table, baseModel, collection, depth, onInvalidModel, i, gatheredModel) ==
    IF i > Len(MyFkDefs(fkDefs, table))
    THEN Returned(gatheredModel)
    ELSE LET fkDef == MyFkDefs(fkDefs, table)[i]
             fkName == fkDef.fkName
             myId == baseModel["id"]
             fkValue == Prop(baseModel, fkDef.myColumn)
         IN IF IsInvalidFkValue(fkValue)
            THEN Threw(ModelFkGatherError(table, myId,
                     [kind |-> "InvalidReferenceValue", fkName |-> fkName,
                      column |-> fkDef.myColumn, fkValue |-> fkValue]))
            ELSE LET expectsOtherModel == ExpectsOtherModel(fkValue)
                     otherBaseModel ==
                         IF expectsOtherModel
                         THEN Coalesce(McGet(collection, fkDef.otherTable, fkValue), Null)
                         ELSE Null
                     isValid == expectsOtherModel = Truthy(otherBaseModel)
                 IN IF ~isValid /\ InvalidAction(onInvalidModel) = "return_null"
                    THEN Returned(Null)
                    ELSE IF ~isValid /\ InvalidAction(onInvalidModel) = "throw"
                    THEN Threw(ModelFkGatherError(table, myId,
                             [kind |-> "MissingReferencedRow", fkName |-> fkName,
                              column |-> fkDef.myColumn, fkValue |-> fkValue]))
                    ELSE IF Truthy(otherBaseModel)
                    THEN LET other == BaseToGatheredModel(fkDefs, fkDef.otherTable,
                                          otherBaseModel, collection, depth - 1,
                                          onInvalidModel)
                         IN IF other.threw THEN other
                            ELSE GatherFkLoop(fkDefs, table, baseModel, collection, depth,
                                     onInvalidModel, i + 1,
                                     SetSlot(gatheredModel, fkName, other.value))
                    ELSE GatherFkLoop(fkDefs, table, baseModel, collection, depth,
                             onInvalidModel, i + 1, SetSlot(gatheredModel, fkName, Null))

BaseToGatheredModel(fkDefs, table, baseModel, collection, depth, onInvalidModel) ==
    IF ReconstructStops(depth)
    THEN Returned(TagModel(0, table, baseModel))
    ELSE IF ~Truthy(Prop(baseModel, "id")) \/ ~IsNumber(Prop(baseModel, "id"))
    THEN Threw([name |-> "Error", message |-> "Expected model to have a valid id"])
    ELSE GatherFkLoop(fkDefs, table, baseModel, collection, depth, onInvalidModel, 1,
                      TagModel(depth, table, baseModel))

(***************************************************************************)
(* gatherModelFks.  The part before the await plans the joins and issues   *)
(* the query; the part after it parses the rows and reconstructs.          *)
(***************************************************************************)
\* opts.depth ?? MAX_FK_GATHER_DEPTH
GatherDepth(opts) == Coalesce(opts.depth, Num(MAX_FK_GATHER_DEPTH)).v

\* opts.onInvalidModel ?? 'omit'
GatherOnInvalidModel(opts) == Coalesce(opts.onInvalidModel, Str("omit")).v

\* The loop over gatherItems only extends the query builder with leftJoin; the
\* builder is executed once, by the callback handed to qb.run.
QueriesIssuedPerJoin(items) == 1 + Len(items)
QueriesIssued(items) == 1

\* newQueryContext().add(table, table, tableToColumns[table]), then _collectGatherData.
GatherPlan(rz, table, opts) ==
    LET root == QcAdd(rz, NewQueryContext, table, table)
    IN IF root.threw
       THEN [threw |-> TRUE, error |-> root.error, qb |-> NewQueryContext, result |-> <<>>]
       ELSE CollectGatherData(rz, table, root.qc, GatherDepth(opts), <<>>)

\* rizzult.rows.map(row => _baseToGatheredModel(...)), from row i on; a throw ends the map.
RECURSIVE GatherMapRows(_, _, _, _, _, _)
GatherMapRows(rz, table, opts, rizzult, i, acc) ==
    IF i > Len(rizzult.rows) THEN Returned(acc)
    ELSE LET gatheredModel ==
                 BaseToGatheredModel(rz.fkDefs, table, rizzult.rows[i].selectable[table],
                                     rizzult.models, GatherDepth(opts),
                                     GatherOnInvalidModel(opts))
         IN IF gatheredModel.threw THEN gatheredModel
            ELSE GatherMapRows(rz, table, opts, rizzult, i + 1,
                               Append(acc, gatheredModel.value))

\* result.filter(model => model !== null)
RECURSIVE FilterNotNull(_)
FilterNotNull(models) ==
    IF models = <<>> THEN <<>>
    ELSE IF Head(models) = Null THEN FilterNotNull(Tail(models))
    ELSE <<Head(models)>> \o FilterNotNull(Tail(models))

\* Which policies make gatherModelFks filter the nulls out of its result.
FiltersNothing(onInvalidModel) == FALSE
FiltersNullsForNullToo(onInvalidModel) == onInvalidModel \in {"omit", "null"}
FiltersNulls(onInvalidModel) == onInvalidModel = "omit"

\* The part of gatherModelFks after `await qb.run(...)` resolved to rizzult.
GatherModelFksResume(rz, table, opts, rizzult) ==
    LET result == GatherMapRows(rz, table, opts, rizzult, 1, <<>>)
    IN IF result.threw THEN result
       ELSE IF FiltersNulls(GatherOnInvalidModel(opts))
       THEN Returned(FilterNotNull(result.value))
       ELSE result

\* modelCollection?.addCollection(collection): the caller's collection after the call.
MergeIntoCallerCollection(opts, callerCollection, collection) ==
    IF opts.hasModelCollection THEN McAddCollection(callerCollection, collection)
    ELSE callerCollection

(***************************************************************************)
(* Gather result objects (fk-gather-result.ts) and the three wrappers of   *)
(* KyselyRizzolver.                                                        *)
(***************************************************************************)
NewGatherOneResult(table, depth, result, models) ==
    Returned([gatherType |-> "gatherOne", table |-> table, depth |-> depth,
              result |-> result, models |-> models])

NewGatherOneXResultUnchecked(table, depth, result, models) ==
    Returned([gatherType |-> "gatherOne", table |-> table, depth |-> depth,
              result |-> result, models |-> models])

NewGatherOneXResult(table, depth, result, models) ==
    IF ~Truthy(result)
    THEN Threw([name |-> "Error", message |-> "Expected a gatherOneX result"])
    ELSE Returned([gatherType |-> "gatherOne", table |-> table, depth |-> depth,
                   result |-> result, models |-> models])

\* The payload of a gatherSome result is an array; it is kept under `items`.
NewGatherSomeResult(table, depth, result, models) ==
    Returned([gatherType |-> "gatherSome", table |-> table, depth |-> depth,
              result |-> [items |-> result], models |-> models])

\* opts?.depth ?? this.defaultGatherDepth
WrapperDepth(rz, opts) == Coalesce(opts.depth, Num(rz.defaultGatherDepth)).v

\* opts?.modelCollection ?? this.newModelCollection(): the collection handed to
\* the result object, as it is when the wrapper returns.
WrapperModelCollection(opts, callerCollection, collection) ==
    IF opts.hasModelCollection THEN callerCollection ELSE NewModelCollection(EmptyObj)

\* gather[0] ?? undefined
FirstOrUndefined(gather) == IF gather = <<>> THEN Undefined ELSE Coalesce(gather[1], Undefined)

\* The statements of gatherOne / gatherOneX / gatherSome after the await.
WrapperFinish(rz, kind, table, opts, gather, models) ==
    IF kind = "gatherOne"
    THEN NewGatherOneResult(table, WrapperDepth(rz, opts), FirstOrUndefined(gather), models)
    ELSE IF kind = "gatherOneX"
    THEN NewGatherOneXResult(table, WrapperDepth(rz, opts), FirstOrUndefined(gather), models)
    ELSE IF Len(FilterNotNull(gather)) < Len(gather)
    THEN Threw([name |-> "Error", message |-> "Expected no nulls in fkGatherSome result"])
    ELSE NewGatherSomeResult(table, WrapperDepth(rz, opts), FilterNotNull(gather), models)

(***************************************************************************)
(* State.                                                                  *)
(***************************************************************************)
VARIABLES
    rizzolver,          \* the built KyselyRizzolver: schema and default depth
    db,                 \* the database content
    damage,             \* how many writes the database has received
    pc,                 \* "idle", "await" (query in flight) or "done"
    call,               \* the gather call: wrapper kind, table, where, opts
    qb,                 \* the call's query context (its selectors)
    gatherItems,        \* the call's planned LEFT JOIN steps
    queries,            \* how many queries the call has issued
    callerCollection,   \* content of the collection passed in opts, if any
    rizzult,            \* what QueryContext.run resolved to
    gather,             \* what gatherModelFks resolved to
    outcome             \* how the wrapper's promise settled

vars == <<rizzolver, db, damage, pc, call, qb, gatherItems, queries, callerCollection,
          rizzult, gather, outcome>>

callVars == <<pc, call, qb, gatherItems, queries, callerCollection, rizzult, gather, outcome>>

\* new KyselyRizzolver(tableToColumns, fkDefs, defaultGatherDepth ?? MAX_FK_GATHER_DEPTH)
NewKyselyRizzolver(s, defaultGatherDepth) ==
    [schema |-> s, tableToColumns |-> TableToColumns(s), fkDefs |-> FkDefs(s),
     defaultGatherDepth |-> Coalesce(defaultGatherDepth, Num(MAX_FK_GATHER_DEPTH)).v]

NoCall == [kind |-> "none"]
Pending == [status |-> "pending"]

GatherKinds == {"gatherOne", "gatherOneX", "gatherSome"}
Policies == {"omit", "throw", "null", "keep"}
\* The where predicates a caller passes, as the set of root ids they accept:
\* `id = 0` (no row), `id = 1`, `id in [1, 2]`.
WhereSets == {{}, {1}, {1, 2}}

\* No options at all: gatherOne(db, table, where).
NoOpts == [depth |-> Undefined, onInvalidModel |-> Undefined, hasModelCollection |-> FALSE]

\* The options a caller may pass: none; a depth and a policy; or a policy and a
\* model collection of its own.
GatherOptsSet ==
    {NoOpts}
    \cup [depth : {Num(d) : d \in ValidFkDepth},
          onInvalidModel : {Str(p) : p \in Policies},
          hasModelCollection : {FALSE}]
    \cup [depth : {Undefined},
          onInvalidModel : {Str(p) : p \in Policies},
          hasModelCollection : {TRUE}]

InitCall ==
    /\ damage = 0
    /\ pc = "idle"
    /\ call = NoCall
    /\ qb = NewQueryContext
    /\ gatherItems = <<>>
    /\ queries = 0
    /\ callerCollection = NewModelCollection(EmptyObj)
    /\ rizzult = Undefined
    /\ gather = Undefined
    /\ outcome = Pending

Init ==
    /\ \E s \in SchemaNames :
          /\ rizzolver = NewKyselyRizzolver(s, Undefined)
          /\ db = BaseDb(s)
    /\ InitCall

(***************************************************************************)
(* Database writes made before the gather call, with foreign-key           *)
(* enforcement off (as the tests' setup does).                             *)
(***************************************************************************)
DbDeleteRow(table, id) ==
    /\ pc = "idle"
    /\ damage < MaxDamage
    /\ table \in DOMAIN db
    /\ id \in DOMAIN db[table]
    /\ db' = [db EXCEPT ![table] = [i \in DOMAIN db[table] \ {id} |-> db[table][i]]]
    /\ damage' = damage + 1
    /\ UNCHANGED <<rizzolver, callVars>>

DbSetFk(table, id, column, value) ==
    /\ pc = "idle"
    /\ damage < MaxDamage
    /\ table \in DOMAIN db
    /\ id \in DOMAIN db[table]
    /\ column \in FkColumns(rizzolver.schema, table)
    /\ db[table][id][column] # value
    /\ db' = [db EXCEPT ![table][id][column] = value]
    /\ damage' = damage + 1
    /\ UNCHANGED <<rizzolver, callVars>>

(***************************************************************************)
(* A gather call.                                                          *)
(***************************************************************************)
\* gatherOne / gatherOneX / gatherSome up to the await inside gatherModelFks:
\* plan the joins and hand the query to the executor.
GatherStart(kind, table, where, opts) ==
    /\ pc = "idle"
    /\ table \in Tables(rizzolver.schema)
    /\ call' = [kind |-> kind, table |-> table, where |-> where, opts |-> opts]
    /\ LET plan == GatherPlan(rizzolver, table, opts)
       IN IF plan.threw
          THEN /\ pc' = "done"
               /\ outcome' = [status |-> "rejected", error |-> plan.error]
               /\ UNCHANGED <<qb, gatherItems, queries>>
          ELSE /\ pc' = "await"
               /\ qb' = plan.qb
               /\ gatherItems' = plan.result
               /\ queries' = queries + QueriesIssued(plan.result)
               /\ UNCHANGED outcome
    /\ UNCHANGED <<rizzolver, db, damage, callerCollection, rizzult, gather>>

\* The query resolves: QueryContext.run parses the rows, gatherModelFks merges the
\* models into the caller's collection and reconstructs, the wrapper builds its result.
QueryReturns ==
    /\ pc = "await"
    /\ LET rows == ExecuteQuery(db, call.table, gatherItems, qb, call.where)
           ran == QcRun(qb, rows)
           merged == MergeIntoCallerCollection(call.opts, callerCollection, ran.models)
           resumed == GatherModelFksResume(rizzolver, call.table, call.opts, ran)
       IN /\ rizzult' = ran
          /\ callerCollection' = merged
          /\ IF resumed.threw
             THEN /\ gather' = Undefined
                  /\ outcome' = [status |-> "rejected", error |-> resumed.error]
             ELSE LET wrapped == WrapperFinish(rizzolver, call.kind, call.table, call.opts,
                                     resumed.value,
                                     WrapperModelCollection(call.opts, merged, ran.models))
                  IN /\ gather' = [items |-> resumed.value]
                     /\ outcome' = IF wrapped.threw
                                   THEN [status |-> "rejected", error |-> wrapped.error]
                                   ELSE [status |-> "resolved", value |-> wrapped.value]
    /\ pc' = "done"
    /\ UNCHANGED <<rizzolver, db, damage, call, qb, gatherItems, queries>>

\* The environment: a database write, or a caller starting a gather.
DbWrite ==
    /\ pc = "idle"
    /\ damage < MaxDamage
    /\ \E table \in DOMAIN db, id \in RowIds :
          \/ DbDeleteRow(table, id)
          \/ \E column \in FkColumns(rizzolver.schema, table), value \in FkValues :
                DbSetFk(table, id, column, value)

GatherCall ==
    /\ pc = "idle"
    /\ \E kind \in GatherKinds, table \in DOMAIN db, where \in WhereSets,
          opts \in GatherOptsSet : GatherStart(kind, table, where, opts)

Next ==
    \/ DbWrite
    \/ GatherCall
    \/ QueryReturns

Spec == Init /\ [][Next]_vars

TypeOK ==
    /\ pc \in {"idle", "await", "done"}
    /\ damage \in 0..MaxDamage
    /\ queries \in Nat
    /\ outcome.status \in {"pending", "resolved", "rejected"}

(***************************************************************************)
(* Vocabulary of the properties.                                           *)
(***************************************************************************)
Done == pc = "done"
Resolved == pc = "done" /\ outcome.status = "resolved"
Rejected == pc = "done" /\ outcome.status = "rejected"

\* gatherModelFks returned (did not throw): `gather` holds its array.
GatherReturned == pc = "done" /\ gather # Undefined

CallDepth == GatherDepth(call.opts)
CallPolicy == GatherOnInvalidModel(call.opts)

\* The flat root model of the i-th row the query returned.
RootModel(i) == rizzult.rows[i].selectable[call.table]

\* The table a selector alias of the call stands for.
TableOfAlias(a) == qb[CHOOSE k \in 1..Len(qb) : qb[k].table.alias = a].table.name

\* A foreign-key value that expects a referenced row.
ExpectsRow(v) == IsNumber(v) /\ v.v # 0

\* The tree expanded from `model` to `depth` contains an invalid reference: a
\* foreign-key value that expects a row which the collection does not hold.
RECURSIVE TreeHasInvalidRef(_, _, _, _, _)
TreeHasInvalidRef(fkDefs, table, model, collection, depth) ==
    /\ depth >= 1
    /\ \E i \in 1..Len(MyFkDefs(fkDefs, table)) :
          LET e == MyFkDefs(fkDefs, table)[i]
              v == model[e.myColumn]
          IN /\ ExpectsRow(v)
             /\ \/ ~McHas(collection, e.otherTable, v.v)
                \/ /\ McHas(collection, e.otherTable, v.v)
                   /\ TreeHasInvalidRef(fkDefs, e.otherTable,
                          collection[e.otherTable][ToString(v.v)], collection, depth - 1)

\* The model itself (not a descendant) holds an invalid reference.
RootHasInvalidRef(fkDefs, table, model, collection, depth) ==
    /\ depth >= 1
    /\ \E i \in 1..Len(MyFkDefs(fkDefs, table)) :
          LET e == MyFkDefs(fkDefs, table)[i]
          IN /\ ExpectsRow(model[e.myColumn])
             /\ ~McHas(collection, e.otherTable, model[e.myColumn].v)

\* The i-th root row's tree, at the call's depth, contains an invalid reference.
RootTreeInvalid(i) ==
    TreeHasInvalidRef(rizzolver.fkDefs, call.table, RootModel(i), rizzult.models, CallDepth)

\* The root row with this id appears in the array gatherModelFks returned.
RootReturned(id) ==
    \E j \in 1..Len(gather.items) : gather.items[j] # Null /\ gather.items[j]["id"] = id

(***************************************************************************)
(* C1: under the `omit` policy an invalid reference at any level of a root *)
(* row's tree, nested levels included, makes the reconstruction of that    *)
(* root return null, so the root is dropped from the result; no root is    *)
(* returned with a nested slot nulled because a descendant was invalid.    *)
(***************************************************************************)
C1_OmitDropsRootOnAnyInvalidRef ==
    (GatherReturned /\ CallPolicy = "omit") =>
        \A i \in 1..Len(rizzult.rows) :
            RootTreeInvalid(i) => ~RootReturned(RootModel(i)["id"])

(***************************************************************************)
(* C2: after a successful gatherOne, gatherOneX or gatherSome call the     *)
(* model collection carried by the result holds an entry for every         *)
(* (table, id) flat row the call's query returned, whether or not the      *)
(* caller supplied a collection.                                           *)
(***************************************************************************)
C2_ResultCarriesFetchedRows ==
    Resolved =>
        \A i \in 1..Len(rizzult.rows) :
            \A a \in DOMAIN rizzult.rows[i].selectable :
                LET m == rizzult.rows[i].selectable[a]
                IN m # Undefined => McHas(outcome.value.models, TableOfAlias(a), m["id"].v)

(***************************************************************************)
(* C3: a gather call that completes planning issues exactly one query,     *)
(* whatever the depth, the schema and the number of edges traversed; it    *)
(* never issues a second one when the rows arrive.                         *)
(***************************************************************************)
PlanningCompleted == pc \in {"await", "done"} /\ Len(qb) >= 1

MatchedRoots == SortedSeq({id \in DOMAIN db[call.table] : id \in call.where})

\* The references, within `depth` hops of row (table, id), whose referenced
\* row does not exist.
RECURSIVE DbBrokenRefs(_, _, _)
DbBrokenRefs(table, id, depth) ==
    IF depth <= 0 THEN {}
    ELSE UNION {
        LET e == MyFkDefs(rizzolver.fkDefs, table)[i]
            v == db[table][id][e.myColumn]
        IN IF ~ExpectsRow(v) THEN {}
           ELSE IF v.v \notin DOMAIN db[e.otherTable]
           THEN {[table |-> table, id |-> Num(id), fkName |-> e.fkName, fkValue |-> v]}
           ELSE DbBrokenRefs(e.otherTable, v.v, depth - 1)
        : i \in 1..Len(MyFkDefs(rizzolver.fkDefs, table))}

\* The references of row (table, id) itself whose referenced row does not exist.
DbOwnBrokenRefs(table, id, depth) == DbBrokenRefs(table, id, IF depth <= 0 THEN 0 ELSE 1)

\* The tree of row (table, id) to `depth`: the row with its two tags and, above
\* depth 0, one slot per edge holding the referenced row's tree at depth - 1,
\* or null where the reference is empty or its row does not exist.
RECURSIVE ExpectedTree(_, _, _)
ExpectedTree(table, id, depth) ==
    LET row == db[table][id]
        edges == MyFkDefs(rizzolver.fkDefs, table)
        names == {edges[i].fkName : i \in 1..Len(edges)}
        edgeOf(n) == edges[CHOOSE i \in 1..Len(edges) : edges[i].fkName = n]
        slot(e) == IF ExpectsRow(row[e.myColumn]) /\ row[e.myColumn].v \in DOMAIN db[e.otherTable]
                   THEN ExpectedTree(e.otherTable, row[e.myColumn].v, depth - 1)
                   ELSE Null
        tagged == ("__fkDepth" :> Num(IF depth <= 0 THEN 0 ELSE depth))
                  @@ ("__table" :> Str(table)) @@ row
    IN IF depth <= 0 THEN tagged
       ELSE [k \in DOMAIN tagged \cup names |->
                IF k \in names THEN slot(edgeOf(k)) ELSE tagged[k]]

\* The array gatherModelFks returned holds the tree of root `id`.
TreePresent(id) ==
    \E j \in 1..Len(gather.items) :
        gather.items[j] = ExpectedTree(call.table, id, CallDepth)

(***************************************************************************)
(* C4: in every model tree a gather at depth D returns, the root carries   *)
(* depth D and its table, a model reached through k edges carries depth    *)
(* D - k (never below 0) and the referenced table, and a model of depth 0  *)
(* has no foreign-key slot; also on cyclic schemas, where a row appears    *)
(* several times with different depths.                                    *)
(***************************************************************************)
RECURSIVE WellAnnotated(_, _, _)
WellAnnotated(model, table, d) ==
    /\ d >= 0
    /\ model["__fkDepth"] = Num(d)
    /\ model["__table"] = Str(table)
    /\ \A i \in 1..Len(MyFkDefs(rizzolver.fkDefs, table)) :
          LET e == MyFkDefs(rizzolver.fkDefs, table)[i]
          IN IF d = 0 THEN e.fkName \notin DOMAIN model
             ELSE /\ e.fkName \in DOMAIN model
                  /\ \/ model[e.fkName] = Null
                     \/ WellAnnotated(model[e.fkName], e.otherTable, d - 1)

C4_DepthAnnotations ==
    GatherReturned =>
        \A j \in 1..Len(gather.items) :
            gather.items[j] # Null => WellAnnotated(gather.items[j], call.table, CallDepth)

\* The circular schema at depth 3: topic -> post -> topic -> post, post 1 at
\* depth 2 and again at depth 0.
C4_Witness ==
    /\ GatherReturned
    /\ rizzolver.schema = "circular"
    /\ call.table = "topic"
    /\ CallDepth = 3
    /\ Len(gather.items) >= 1
    /\ gather.items[1] # Null
    /\ LET m == gather.items[1]
       IN /\ m["main_post"] # Null
          /\ m["main_post"]["__fkDepth"] = Num(2)
          /\ m["main_post"]["topic"] # Null
          /\ m["main_post"]["topic"]["main_post"] # Null
          /\ m["main_post"]["topic"]["main_post"]["__fkDepth"] = Num(0)
          /\ m["main_post"]["topic"]["main_post"]["id"] = m["main_post"]["id"]

(***************************************************************************)
(* C5: planning and reconstruction are bounded by the depth counter alone, *)
(* also on cyclic and self-referencing schemas: every planned join lies    *)
(* 1..D edges from the root, the plan holds exactly one join per edge path *)
(* of length 1..D, and no returned tree is higher than D.                  *)
(***************************************************************************)
\* How many edges separate a selector alias from the root selector.
RECURSIVE JoinLevel(_)
JoinLevel(alias) ==
    IF alias = call.table THEN 0
    ELSE 1 + JoinLevel(gatherItems[CHOOSE k \in 1..Len(gatherItems) :
                                       gatherItems[k].tableAlias = alias].myAlias)

\* The number of edge paths of length 1..d that start at `table`, counting the
\* edges of `table` from the i-th on.
RECURSIVE EdgePaths(_, _, _)
EdgePaths(table, d, i) ==
    IF d <= 0 \/ i > Len(MyFkDefs(rizzolver.fkDefs, table)) THEN 0
    ELSE 1 + EdgePaths(MyFkDefs(rizzolver.fkDefs, table)[i].otherTable, d - 1, 1)
           + EdgePaths(table, d, i + 1)

\* The number of nested levels below a gathered model.
RECURSIVE ModelHeight(_)
ModelHeight(model) ==
    LET edges == MyFkDefs(rizzolver.fkDefs, model["__table"].v)
        below == {ModelHeight(model[edges[i].fkName]) :
                    i \in {k \in 1..Len(edges) : /\ edges[k].fkName \in DOMAIN model
                                                 /\ model[edges[k].fkName] # Null}}
    IN IF below = {} THEN 0
       ELSE 1 + CHOOSE h \in below : \A g \in below : g <= h

C5_DepthCounterBoundsRecursion ==
    PlanningCompleted =>
        /\ \A k \in 1..Len(gatherItems) :
              JoinLevel(gatherItems[k].tableAlias) \in 1..CallDepth
        /\ Len(gatherItems) = EdgePaths(call.table, CallDepth, 1)
        /\ Len(qb) = 1 + Len(gatherItems)
        /\ GatherReturned =>
              \A j \in 1..Len(gather.items) :
                  gather.items[j] # Null => ModelHeight(gather.items[j]) <= CallDepth

\* The self-referencing table at D_max: three joins in a chain and a tree of
\* height 3.
C5_Witness ==
    /\ GatherReturned
    /\ rizzolver.schema = "tree"
    /\ CallDepth = MAX_FK_GATHER_DEPTH
    /\ Len(gatherItems) = MAX_FK_GATHER_DEPTH
    /\ \E k \in 1..Len(gatherItems) :
          JoinLevel(gatherItems[k].tableAlias) = MAX_FK_GATHER_DEPTH
    /\ \E j \in 1..Len(gather.items) :
          gather.items[j] # Null /\ ModelHeight(gather.items[j]) = MAX_FK_GATHER_DEPTH

(***************************************************************************)
(* C6: a gather at depth 0 plans no join and returns, for every matched    *)
(* root row, the flat row tagged {depth 0, table} without any foreign-key  *)
(* slot, whatever the row's foreign-key values and whatever the policy: no *)
(* root is dropped and no gather error is raised.                          *)
(***************************************************************************)
\* The flat row (table, id) with the two tags of a depth-0 model.
FlatTagged(table, id) ==
    ("__fkDepth" :> Num(0)) @@ ("__table" :> Str(table)) @@ db[table][id]

C6_DepthZeroIsFlat ==
    (Done /\ PlanningCompleted /\ CallDepth = 0) =>
        /\ gatherItems = <<>>
        /\ Len(qb) = 1
        /\ GatherReturned
        /\ Len(gather.items) = Len(MatchedRoots)
        /\ \A j \in 1..Len(MatchedRoots) :
              gather.items[j] = FlatTagged(call.table, MatchedRoots[j])
        /\ Rejected => outcome.error.name # "ModelFkGatherError"
        /\ call.kind = "gatherSome" =>
              Resolved /\ outcome.value.result.items = gather.items

\* Depth 0 under `throw` on a root whose own reference points to a missing row.
C6_Witness ==
    /\ Resolved
    /\ CallDepth = 0
    /\ CallPolicy = "throw"
    /\ Len(MatchedRoots) = 2
    /\ Len(gather.items) = 2
    /\ \E j \in 1..2 : DbBrokenRefs(call.table, MatchedRoots[j], 1) # {}

(***************************************************************************)
(* C7: under the `throw` policy, when a model expanded during the          *)
(* reconstruction refers to a missing row, the whole call is rejected with *)
(* a ModelFkGatherError naming the referencing table, the referencing      *)
(* row's id, the edge and the missing id; nothing is returned, not even    *)
(* for the valid root rows of the batch.                                   *)
(***************************************************************************)
\* The broken references the reconstruction of the matched roots can meet.
BatchBrokenRefs ==
    UNION {DbBrokenRefs(call.table, MatchedRoots[j], CallDepth) : j \in 1..Len(MatchedRoots)}

C7_ThrowRejectsWholeCall ==
    (Done /\ PlanningCompleted /\ CallPolicy = "throw" /\ BatchBrokenRefs # {}) =>
        /\ Rejected
        /\ gather = Undefined
        /\ outcome.error.name = "ModelFkGatherError"
        /\ outcome.error.reason.kind = "MissingReferencedRow"
        /\ [table |-> outcome.error.table, id |-> outcome.error.id,
            fkName |-> outcome.error.reason.fkName,
            fkValue |-> outcome.error.reason.fkValue] \in BatchBrokenRefs

\* A batch of two roots, one with an intact tree and one with a broken reference.
C7_Witness ==
    /\ Rejected
    /\ CallPolicy = "throw"
    /\ call.kind = "gatherSome"
    /\ Len(MatchedRoots) = 2
    /\ \E j \in 1..2 : DbBrokenRefs(call.table, MatchedRoots[j], CallDepth) = {}
    /\ \E j \in 1..2 : DbBrokenRefs(call.table, MatchedRoots[j], CallDepth) # {}
    /\ outcome.error.name = "ModelFkGatherError"

(***************************************************************************)
(* C8: under the `keep` policy the reconstruction never returns null and   *)
(* never raises for a missing referenced row: the slot of such an edge is  *)
(* null, the remaining edges of the model are still processed, and the     *)
(* model stays in the result; gatherSome returns one model per matched     *)
(* root row.                                                               *)
(***************************************************************************)
C8_KeepNullsSlotAndContinues ==
    (Done /\ PlanningCompleted /\ CallPolicy = "keep") =>
        /\ GatherReturned
        /\ Len(gather.items) = Len(MatchedRoots)
        /\ \A j \in 1..Len(MatchedRoots) :
              gather.items[j] = ExpectedTree(call.table, MatchedRoots[j], CallDepth)
        /\ call.kind = "gatherSome" =>
              Resolved /\ outcome.value.result.items = gather.items

\* A post whose author is missing: the `author` slot is null and the edge after
\* it, `banner_img`, is still populated.
C8_Witness ==
    /\ Resolved
    /\ CallPolicy = "keep"
    /\ call.kind = "gatherSome"
    /\ rizzolver.schema = "blog"
    /\ call.table = "post"
    /\ CallDepth >= 1
    /\ Len(gather.items) = 2
    /\ DbOwnBrokenRefs("post", 1, CallDepth) # {}
    /\ gather.items[1]["author"] = Null
    /\ gather.items[1]["banner_img"] # Null

(***************************************************************************)
(* C9: in the reconstruction the `null` policy is identical to `omit`: for *)
(* every flat model of the collection and every depth both return the same *)
(* value (null in the same cases, the same tree otherwise); and gatherOne  *)
(* on a single matching row whose reference is invalid yields an undefined *)
(* payload under both.                                                     *)
(***************************************************************************)
C9_NullPolicyIsOmit ==
    (Done /\ PlanningCompleted) =>
        /\ \A t \in DOMAIN rizzult.models :
              \A key \in DOMAIN rizzult.models[t] :
                  \A d \in ValidFkDepth :
                      BaseToGatheredModel(rizzolver.fkDefs, t, rizzult.models[t][key],
                                          rizzult.models, d, "null")
                      = BaseToGatheredModel(rizzolver.fkDefs, t, rizzult.models[t][key],
                                            rizzult.models, d, "omit")
        /\ ( /\ call.kind = "gatherOne"
             /\ CallPolicy \in {"omit", "null"}
             /\ Len(MatchedRoots) = 1
             /\ DbOwnBrokenRefs(call.table, MatchedRoots[1], CallDepth) # {} )
           => (Resolved /\ outcome.value.result = Undefined)

\* gatherOne under `null` on a single row whose own reference is invalid.
C9_Witness ==
    /\ Resolved
    /\ call.kind = "gatherOne"
    /\ CallPolicy = "null"
    /\ Len(MatchedRoots) = 1
    /\ DbOwnBrokenRefs(call.table, MatchedRoots[1], CallDepth) # {}
    /\ outcome.value.result = Undefined
    /\ BaseToGatheredModel(rizzolver.fkDefs, call.table, RootModel(1), rizzult.models,
                           CallDepth, "null") = Returned(Null)

FirstModelExists ==
    GatherReturned /\ Len(gather.items) >= 1 /\ gather.items[1] # Null

C11_OneXNeedsAPayload ==
    (Done /\ PlanningCompleted /\ call.kind = "gatherOneX") =>
        /\ (GatherReturned /\ ~FirstModelExists) =>
              /\ Rejected
              /\ outcome.error.message = "Expected a gatherOneX result"
        /\ (MatchedRoots = <<>>
            \/ /\ Len(MatchedRoots) = 1
               /\ CallPolicy \in {"omit", "null"}
               /\ DbOwnBrokenRefs(call.table, MatchedRoots[1], CallDepth) # {}) =>
              /\ GatherReturned
              /\ ~FirstModelExists
        /\ Resolved <=> FirstModelExists
        /\ Resolved =>
              /\ outcome.value.result = gather.items[1]
              /\ outcome.value.result # Undefined
              /\ outcome.value.result # Null

\* gatherOneX under `null` whose only matching root refers to a missing row.
C11_Witness ==
    /\ Rejected
    /\ call.kind = "gatherOneX"
    /\ CallPolicy = "null"
    /\ Len(MatchedRoots) = 1
    /\ DbOwnBrokenRefs(call.table, MatchedRoots[1], CallDepth) # {}
    /\ outcome.error.message = "Expected a gatherOneX result"

(***************************************************************************)
(* C12: a foreign-key column that holds null, is absent, or holds 0        *)
(* expects no referenced row: the edge's slot is null, the model is valid, *)
(* and under every policy, the default and `throw` included, no error is   *)
(* raised and the model is not dropped.                                    *)
(***************************************************************************)
\* The flat model without the column `col` (the column is absent).
WithoutColumn(model, col) == [k \in DOMAIN model \ {col} |-> model[k]]

\* The flat model with every foreign-key column of its table set to null.
EmptiedRefs(table, model) ==
    [k \in DOMAIN model |-> IF k \in FkColumns(rizzolver.schema, table) THEN Null ELSE model[k]]

\* Some matched root has an edge that expects no row (null or 0), examined at depth >= 1.
RootWithEmptyRef ==
    /\ CallDepth >= 1
    /\ \E j \in 1..Len(MatchedRoots) :
          \E i \in 1..Len(MyFkDefs(rizzolver.fkDefs, call.table)) :
              db[call.table][MatchedRoots[j]][MyFkDefs(rizzolver.fkDefs, call.table)[i].myColumn]
                  \in {Null, Num(0)}

C12_EmptyReferenceIsValid ==
    (Done /\ PlanningCompleted) =>
        /\ BatchBrokenRefs = {} =>
              /\ GatherReturned
              /\ Len(gather.items) = Len(MatchedRoots)
              /\ \A j \in 1..Len(MatchedRoots) :
                    gather.items[j] = ExpectedTree(call.table, MatchedRoots[j], CallDepth)
        /\ \A r \in 1..Len(rizzult.rows) :
              \A i \in 1..Len(MyFkDefs(rizzolver.fkDefs, call.table)) :
                  \A p \in Policies :
                      LET e == MyFkDefs(rizzolver.fkDefs, call.table)[i]
                          absent == BaseToGatheredModel(rizzolver.fkDefs, call.table,
                                        WithoutColumn(EmptiedRefs(call.table, RootModel(r)),
                                                      e.myColumn),
                                        rizzult.models, MAX_FK_GATHER_DEPTH, p)
                      IN /\ ~absent.threw
                         /\ absent.value # Null
                         /\ absent.value[e.fkName] = Null

\* Under `throw` at depth >= 1: a root with a 0 or null reference is returned
\* with a null slot.
C12_Witness ==
    /\ Resolved
    /\ CallPolicy = "throw"
    /\ RootWithEmptyRef
    /\ BatchBrokenRefs = {}
    /\ \E j \in 1..Len(MatchedRoots) :
          \E i \in 1..Len(MyFkDefs(rizzolver.fkDefs, call.table)) :
              LET e == MyFkDefs(rizzolver.fkDefs, call.table)[i]
              IN /\ db[call.table][MatchedRoots[j]][e.myColumn] = Num(0)
                 /\ gather.items[j][e.fkName] = Null

(***************************************************************************)
(* A second specification for the values a foreign-key column can hold.    *)
(* With foreign-key enforcement off the database stores whatever is        *)
(* written: a negative number, or a text in an integer column.  The calls  *)
(* match both rows and name a depth and a policy.                          *)
(***************************************************************************)
AnyFkValues == {Null, Num(0), Num(-1), Str("x")}

DepthPolicyOpts ==
    [depth : {Num(d) : d \in ValidFkDepth},
     onInvalidModel : {Str(p) : p \in Policies},
     hasModelCollection : {FALSE}]

DbWriteAny ==
    /\ pc = "idle"
    /\ damage < MaxDamage
    /\ \E table \in DOMAIN db, id \in RowIds :
          \/ DbDeleteRow(table, id)
          \/ \E column \in FkColumns(rizzolver.schema, table), value \in AnyFkValues :
                DbSetFk(table, id, column, value)

GatherCallAll ==
    /\ pc = "idle"
    /\ \E kind \in GatherKinds, table \in DOMAIN db, opts \in DepthPolicyOpts :
          GatherStart(kind, table, RowIds, opts)

NextValues ==
    \/ DbWriteAny
    \/ GatherCallAll
    \/ QueryReturns

SpecValues == Init /\ [][NextValues]_vars

\* The foreign-key cells of the models a reconstruction of row (table, id) to
\* `depth` expands, following the references whose row exists.
RECURSIVE ReachableCells(_, _, _)
ReachableCells(table, id, depth) ==
    IF depth <= 0 THEN {}
    ELSE UNION {
        LET e == MyFkDefs(rizzolver.fkDefs, table)[i]
            v == db[table][id][e.myColumn]
        IN {[table |-> table, id |-> Num(id), fkName |-> e.fkName, fkValue |-> v]}
           \cup (IF ExpectsRow(v) /\ v.v \in DOMAIN db[e.otherTable]
                 THEN ReachableCells(e.otherTable, v.v, depth - 1)
                 ELSE {})
        : i \in 1..Len(MyFkDefs(rizzolver.fkDefs, table))}

BatchCells ==
    UNION {ReachableCells(call.table, MatchedRoots[j], CallDepth) : j \in 1..Len(MatchedRoots)}

\* A value that is neither null, absent, nor a number.
NonNumeric(v) == v.t \notin {"null", "undefined", "number"}

BatchNonNumericCells == {c \in BatchCells : NonNumeric(c.fkValue)}
BatchNegativeCells == {c \in BatchCells : c.fkValue.t = "number" /\ c.fkValue.v < 0}

\* The rejection is a gather error of kind InvalidReferenceValue naming one of `cells`.
RejectedForValue(cells) ==
    /\ Rejected
    /\ gather = Undefined
    /\ outcome.error.name = "ModelFkGatherError"
    /\ outcome.error.reason.kind = "InvalidReferenceValue"
    /\ [table |-> outcome.error.table, id |-> outcome.error.id,
        fkName |-> outcome.error.reason.fkName,
        fkValue |-> outcome.error.reason.fkValue] \in cells

\* No expanded model of the tree holds a foreign-key value satisfying Bad.
RECURSIVE NoExpanded(_, _)
NoExpanded(model, bad) ==
    \/ model["__fkDepth"].v = 0
    \/ \A i \in 1..Len(MyFkDefs(rizzolver.fkDefs, model["__table"].v)) :
          LET e == MyFkDefs(rizzolver.fkDefs, model["__table"].v)[i]
          IN /\ model[e.myColumn] \notin bad
             /\ \/ model[e.fkName] = Null
                \/ NoExpanded(model[e.fkName], bad)

C14_NegativeValueIsFatal ==
    (Done /\ PlanningCompleted) =>
        /\ (BatchNegativeCells # {} /\ (CallPolicy = "keep" \/ BatchBrokenRefs = BatchNegativeCells)) =>
              RejectedForValue(BatchNegativeCells)
        /\ GatherReturned =>
              \A j \in 1..Len(gather.items) :
                  gather.items[j] # Null => NoExpanded(gather.items[j], {Num(-1)})

(***************************************************************************)
(* C15: for a root table and depth D the planner emits exactly one LEFT    *)
(* JOIN per non-empty foreign-key edge path of length 1..D from the root:  *)
(* every join is an edge of the table its parent alias stands for, no two  *)
(* joins follow the same path, and their number is the number of paths;    *)
(* so no join at D = 0 and none for a table without outgoing edges, for    *)
(* which the planner never fails.                                          *)
(***************************************************************************)
\* The edge path (the referencing columns, from the root) that leads to an alias.
RECURSIVE PathOfAlias(_)
PathOfAlias(alias) ==
    IF alias = call.table THEN <<>>
    ELSE LET item == gatherItems[CHOOSE k \in 1..Len(gatherItems) :
                                     gatherItems[k].tableAlias = alias]
         IN Append(PathOfAlias(item.myAlias), item.myColumn)

\* The join is along an edge the schema defines for its parent's table.
JoinIsAnEdge(item) ==
    \E i \in 1..Len(MyFkDefs(rizzolver.fkDefs, TableOfAlias(item.myAlias))) :
        LET e == MyFkDefs(rizzolver.fkDefs, TableOfAlias(item.myAlias))[i]
        IN /\ e.myColumn = item.myColumn
           /\ e.otherTable = item.table
           /\ e.otherColumn = item.otherColumn

C15_OneJoinPerEdgePath ==
    /\ pc # "idle" => PlanningCompleted
    /\ PlanningCompleted =>
          /\ \A k \in 1..Len(gatherItems) :
                /\ JoinIsAnEdge(gatherItems[k])
                /\ Len(PathOfAlias(gatherItems[k].tableAlias)) \in 1..CallDepth
                /\ \A l \in 1..Len(gatherItems) :
                      l # k => PathOfAlias(gatherItems[l].tableAlias)
                               # PathOfAlias(gatherItems[k].tableAlias)
          /\ Cardinality({PathOfAlias(gatherItems[k].tableAlias) : k \in 1..Len(gatherItems)})
             = EdgePaths(call.table, CallDepth, 1)
          /\ CallDepth = 0 => gatherItems = <<>>
          /\ MyFkDefs(rizzolver.fkDefs, call.table) = <<>> => gatherItems = <<>>

\* The blog's post table at depth 3: author, author.avatar_img and banner_img.
C15_Witness ==
    /\ Done
    /\ rizzolver.schema = "blog"
    /\ call.table = "post"
    /\ CallDepth = 3
    /\ {PathOfAlias(gatherItems[k].tableAlias) : k \in 1..Len(gatherItems)}
       = {<<"author_id">>, <<"author_id", "avatar_img_id">>, <<"banner_img_id">>}

(***************************************************************************)
(* C16: when two matched roots reference the same target row, the model    *)
(* collection holds exactly one entry for the target (table, id), while    *)
(* each root's tree holds its own full copy of it: the two nested objects  *)
(* are distinct objects, neither the collection's entry nor each other.    *)
(***************************************************************************)
\* The flat columns of a gathered model: without its tags and slots.
WithoutTree(model) ==
    [k \in DOMAIN model \ ({"__fkDepth", "__table"}
                           \cup {MyFkDefs(rizzolver.fkDefs, model["__table"].v)[i].fkName :
                                    i \in 1..Len(MyFkDefs(rizzolver.fkDefs, model["__table"].v))})
        |-> model[k]]

\* The populated slots of a gathered model.
PopulatedSlots(model) ==
    {i \in 1..Len(MyFkDefs(rizzolver.fkDefs, model["__table"].v)) :
        LET n == MyFkDefs(rizzolver.fkDefs, model["__table"].v)[i].fkName
        IN n \in DOMAIN model /\ model[n] # Null}

\* The identities of the objects of a gathered tree, position by position: the
\* object itself, then those of its populated slots.
RECURSIVE ObjectRefs(_, _, _)
ObjectRefs(model, here, baseRef) ==
    LET edges == MyFkDefs(rizzolver.fkDefs, model["__table"].v)
        slots == SortedSeq(PopulatedSlots(model))
        below == [k \in 1..Len(slots) |->
                    ObjectRefs(model[edges[slots[k]].fkName],
                               Append(here, edges[slots[k]].fkName),
                               EntryRef(edges[slots[k]].otherTable,
                                        model[edges[slots[k]].myColumn].v))]
    IN [self |-> NewObject(here, baseRef),
        slots |-> [k \in 1..Len(slots) |-> [name |-> edges[slots[k]].fkName,
                                            refs |-> below[k]]]]

\* The identities in the tree of the j-th returned item.
ItemRefs(j) ==
    ObjectRefs(gather.items[j], <<ToString(j)>>,
               [site |-> "parse", alias |-> call.table, row |-> j])

\* The identity of the object in slot `name` of a tree of identities.
SlotRef(refs, name) ==
    refs.slots[CHOOSE k \in 1..Len(refs.slots) : refs.slots[k].name = name].refs.self

\* Roots j and k both reference, through edge i, the same target row, which
\* exists and whose own tree has no missing row.
ShareTarget(j, k, i) ==
    LET e == MyFkDefs(rizzolver.fkDefs, call.table)[i]
        vj == db[call.table][MatchedRoots[j]][e.myColumn]
        vk == db[call.table][MatchedRoots[k]][e.myColumn]
    IN /\ j # k
       /\ vj = vk
       /\ ExpectsRow(vj)
       /\ vj.v \in DOMAIN db[e.otherTable]
       /\ DbBrokenRefs(e.otherTable, vj.v, CallDepth - 1) = {}

StoredTables == {"user", "post"}

\* What a caller hands to add: models with a usable id, with the same id and
\* other content, and values that have no non-zero numeric id.
Selectables ==
    {[id |-> Num(1), name |-> Str("a")],
     [id |-> Num(1), name |-> Str("b")],
     [id |-> Num(2), name |-> Str("a")],
     [id |-> Num(0), name |-> Str("a")],
     [id |-> Str("1"), name |-> Str("a")],
     [id |-> Null, name |-> Str("a")],
     [name |-> Str("a")],
     Null,
     Undefined}

\* The collections a caller hands to addCollection.
OtherCollections ==
    {NewModelCollection(EmptyObj),
     McAdd(NewModelCollection(EmptyObj), "user", [id |-> Num(1), name |-> Str("c")]),
     McAdd(McAdd(NewModelCollection(EmptyObj), "user", [id |-> Num(2), name |-> Str("c")]),
           "post", [id |-> Num(1), name |-> Str("c")])}

InitCollection ==
    /\ rizzolver = NewKyselyRizzolver("blog", Undefined)
    /\ db = BaseDb("blog")
    /\ InitCall

CollectionAdd(table, selectable) ==
    /\ call' = [kind |-> "add", table |-> table, selectable |-> selectable,
                before |-> callerCollection]
    /\ callerCollection' = McAdd(callerCollection, table, selectable)
    /\ UNCHANGED <<rizzolver, db, damage, pc, qb, gatherItems, queries, rizzult, gather,
                   outcome>>

CollectionAddCollection(other) ==
    /\ call' = [kind |-> "addCollection", other |-> other, before |-> callerCollection]
    /\ callerCollection' = McAddCollection(callerCollection, other)
    /\ UNCHANGED <<rizzolver, db, damage, pc, qb, gatherItems, queries, rizzult, gather,
                   outcome>>

AddOne == \E table \in StoredTables, selectable \in Selectables : CollectionAdd(table, selectable)

\* The ids a caller looks up.
LookupIds == {Num(0), Num(1), Num(2), Num(3)}

\* get(table, id) and getX(table, id): `rizzult` is what get returned and
\* `outcome` what getX returned or threw.
CollectionLookup(table, id) ==
    /\ call' = [kind |-> "lookup", table |-> table, id |-> id, before |-> callerCollection]
    /\ rizzult' = McGet(callerCollection, table, id)
    /\ outcome' = McGetX(callerCollection, table, id)
    /\ UNCHANGED <<rizzolver, db, damage, pc, qb, gatherItems, queries, callerCollection,
                   gather>>

AddMany == \E other \in OtherCollections : CollectionAddCollection(other)

Lookup == \E table \in StoredTables, id \in LookupIds : CollectionLookup(table, id)

NextCollection ==
    \/ AddOne
    \/ AddMany
    \/ Lookup

SpecCollection == InitCollection /\ [][NextCollection]_vars

\* The value has a non-zero numeric id.
HasStorableId(x) ==
    /\ "id" \in DOMAIN x
    /\ "t" \in DOMAIN x["id"]
    /\ x["id"].t = "number"
    /\ x["id"].v # 0

\* What the collection holds under (table, key), undefined if nothing.
Entry(collection, table, key) ==
    IF table \in DOMAIN collection /\ key \in DOMAIN collection[table]
    THEN collection[table][key]
    ELSE Undefined

\* The (table, key) pairs of a collection.
Keys(collection) ==
    UNION {{<<t, key>> : key \in DOMAIN collection[t]} : t \in DOMAIN collection}

(***************************************************************************)
(* C17: after any sequence of add and addCollection a collection holds at  *)
(* most one flat model per (table, id); get(table, id) returns the model   *)
(* most recently added under that key; a selectable without a non-zero     *)
(* numeric id is never stored; and repeating an add with the same content  *)
(* leaves the collection unchanged.                                        *)
(***************************************************************************)
C17_CollectionLastWriteWins ==
    /\ \A tk \in Keys(callerCollection) :
          /\ HasStorableId(callerCollection[tk[1]][tk[2]])
          /\ tk[2] = ToString(callerCollection[tk[1]][tk[2]]["id"].v)
    /\ call.kind = "add" =>
          /\ HasStorableId(call.selectable) =>
                /\ McGet(callerCollection, call.table, call.selectable["id"]) = call.selectable
                /\ \A tk \in Keys(callerCollection) \cup Keys(call.before) :
                      tk # <<call.table, ToString(call.selectable["id"].v)>> =>
                          Entry(callerCollection, tk[1], tk[2]) = Entry(call.before, tk[1], tk[2])
          /\ ~HasStorableId(call.selectable) =>
                Keys(callerCollection) = Keys(call.before)
                /\ \A tk \in Keys(call.before) :
                      Entry(callerCollection, tk[1], tk[2]) = Entry(call.before, tk[1], tk[2])
          /\ LET again == McAdd(callerCollection, call.table, call.selectable)
             IN /\ Keys(again) = Keys(callerCollection)
                /\ \A tk \in Keys(again) :
                      Entry(again, tk[1], tk[2]) = Entry(callerCollection, tk[1], tk[2])
    /\ call.kind = "addCollection" =>
          \A tk \in Keys(callerCollection) \cup Keys(call.before) \cup Keys(call.other) :
              Entry(callerCollection, tk[1], tk[2])
              = IF tk \in Keys(call.other) THEN Entry(call.other, tk[1], tk[2])
                ELSE Entry(call.before, tk[1], tk[2])

\* An add that overwrote a different model stored under the same (table, id).
C17_Witness ==
    /\ call.kind = "add"
    /\ HasStorableId(call.selectable)
    /\ Entry(call.before, call.table, ToString(call.selectable["id"].v)) # Undefined
    /\ Entry(call.before, call.table, ToString(call.selectable["id"].v)) # call.selectable
    /\ Entry(callerCollection, call.table, ToString(call.selectable["id"].v)) = call.selectable

(***************************************************************************)
(* A specification of the query context on its own: a caller adds          *)
(* selectors to a context and runs it over raw rows, in any order.  `call` *)
(* records the last operation with the context as it was before it, and    *)
(* `rizzult` is what the last operation resolved with, if it was a run.    *)
(***************************************************************************)
\* The aliases a caller uses.
ContextAliases == {"u", "u2"}

\* The column lists a caller passes for a table: none (all columns) or a
\* list of the table's columns that begins with the primary key.
KeyChoices(table) ==
    IF table = "user" THEN {Undefined, [items |-> <<"id", "name">>]}
    ELSE {Undefined, [items |-> <<"id">>]}

\* Raw rows as the tests of parse() pass them: full rows, rows of a LEFT JOIN
\* without a match, rows with columns missing or not selected, null, undefined.
RawRows ==
    {("_u_id" :> Num(1)) @@ ("_u_name" :> Str("Alice")) @@ ("_u_avatar_img_id" :> Null),
     ("_u_id" :> Num(1)) @@ ("_u_name" :> Str("Alice")),
     ("_u_name" :> Str("Alice")) @@ ("_u_avatar_img_id" :> Null),
     ("_u_id" :> Null) @@ ("_u_name" :> Null) @@ ("_u_avatar_img_id" :> Null)
        @@ ("_u2_id" :> Num(2)) @@ ("_u2_url" :> Str("image2.png")),
     ("_u_id" :> Num(2)) @@ ("_u_name" :> Str("Bob")) @@ ("_u_avatar_img_id" :> Num(1))
        @@ ("_u2_id" :> Num(1)) @@ ("_u2_name" :> Str("Alice")) @@ ("_u2_url" :> Str("image1.png"))
        @@ ("irrelevant1" :> Str("irrelevant1")) @@ ("_u_irrelevant2" :> Str("irrelevant2")),
     Null,
     Undefined}

\* The row lists a caller passes to run: up to two rows.
RowLists == {<<>>} \cup {<<r>> : r \in RawRows} \cup {<<r, q>> : r, q \in RawRows}

InitContext ==
    /\ rizzolver = NewKyselyRizzolver("blog", Undefined)
    /\ db = BaseDb("blog")
    /\ InitCall

\* qc.add(table, alias, keys)
ContextAdd(table, alias, keys) ==
    /\ LET added == QcAddKeys(rizzolver, qb, table, alias, keys)
       IN /\ qb' = added.qc
          /\ outcome' = IF added.threw THEN Threw(added.error) ELSE Returned(Undefined)
    /\ call' = [kind |-> "add", table |-> table, alias |-> alias, before |-> qb,
                queries |-> queries]
    /\ rizzult' = Undefined
    /\ UNCHANGED <<rizzolver, db, damage, pc, gatherItems, queries, callerCollection, gather>>

\* await qc.run(rows): the rows are handed over, no query is executed.
ContextRun(rows) ==
    /\ rizzult' = QcRun(qb, rows)
    /\ outcome' = Returned(Undefined)
    /\ call' = [kind |-> "run", rows |-> rows]
    /\ UNCHANGED <<rizzolver, db, damage, pc, qb, gatherItems, queries, callerCollection,
                   gather>>

AddSelector ==
    \E table \in {"user", "media_item"}, alias \in ContextAliases :
        \E keys \in KeyChoices(table) : ContextAdd(table, alias, keys)

RunRows == \E rows \in RowLists : ContextRun(rows)

NextContext ==
    \/ AddSelector
    \/ RunRows

SpecContext == InitContext /\ [][NextContext]_vars

\* The alias's primary-key column is absent in the row.
PkAbsent(row, alias) ==
    \/ row \in {Null, Undefined}
    \/ ColumnAlias(alias, "id") \notin DOMAIN row
    \/ row[ColumnAlias(alias, "id")] \in {Null, Undefined}

\* The columns a selector selects.
SelectedColumns(selector) == {selector.cols.names[j] : j \in 1..Len(selector.cols.names)}

\* The models that the parsed rows give for a table and an id.
ParsedAs(table, key) ==
    {rizzult.rows[i].selectable[qb[k].table.alias] :
        i \in {i \in 1..Len(call.rows) : \E k \in 1..Len(qb) :
                 /\ qb[k].table.name = table
                 /\ ~PkAbsent(call.rows[i], qb[k].table.alias)
                 /\ ToString(call.rows[i][ColumnAlias(qb[k].table.alias, "id")].v) = key},
        k \in {k \in 1..Len(qb) : qb[k].table.name = table}}
    \ {Undefined}

C19_DuplicateAliasRejected ==
    /\ NumSelectors(qb) = Cardinality({qb[k].table.alias : k \in 1..Len(qb)})
    /\ call.kind = "add" =>
          IF \E k \in 1..Len(call.before) : call.before[k].table.alias = call.alias
          THEN /\ outcome.threw
               /\ outcome.error.message = "Alias \"" \o call.alias \o "\" is already in use"
               /\ qb = call.before
               /\ NumSelectors(qb) = NumSelectors(call.before)
               /\ queries = call.queries
          ELSE /\ ~outcome.threw
               /\ NumSelectors(qb) = NumSelectors(call.before) + 1
               /\ qb[Len(qb)].table = [name |-> call.table, alias |-> call.alias]
               /\ SubSeq(qb, 1, Len(call.before)) = call.before

\* A rejected add of an alias in use, and the same table under two aliases.
C19_Witness ==
    /\ call.kind = "add"
    /\ outcome.threw
    /\ Len(qb) = 2
    /\ qb[1].table.name = qb[2].table.name
    /\ call.table # qb[1].table.name
    /\ call.alias = qb[1].table.alias

(***************************************************************************)
(* A specification of two gather calls in flight at once.  Each variable   *)
(* of a call holds a pair, one component per call; the database and the    *)
(* count of executed queries are shared.  A call runs up to its await, and *)
(* resumes when its query resolves; the two calls take these steps in any  *)
(* order.  Each call is given a model collection of its own.               *)
(***************************************************************************)
Calls == {1, 2}

\* The databases the two calls run against: the test content, and the test
\* content with a referenced row deleted.
PairDbs ==
    {BaseDb("blog"),
     [BaseDb("blog") EXCEPT !["media_item"] = (2 :> BaseDb("blog")["media_item"][2])]}

PairKinds == {"gatherOne", "gatherSome"}

PairWheres == {{1}, {1, 2}}

PairOpts ==
    {NoOpts,
     [depth |-> Num(1), onInvalidModel |-> Str("throw"), hasModelCollection |-> FALSE],
     [depth |-> Num(2), onInvalidModel |-> Str("keep"), hasModelCollection |-> TRUE]}

\* newQueryContext(): `const selectors = {}`, whatever contexts exist already.
ContextSelectorsShared(existing) == existing
ContextSelectors(existing) == NewQueryContext

\* gatherModelFks up to the await, with the selectors its new context starts with.
GatherPlanIn(rz, selectors, table, opts) ==
    LET root == QcAdd(rz, selectors, table, table)
    IN IF root.threw
       THEN [threw |-> TRUE, error |-> root.error, qb |-> selectors, result |-> <<>>]
       ELSE CollectGatherData(rz, table, root.qc, GatherDepth(opts), <<>>)

\* gatherModelFks and its wrapper from the await on: what the call leaves in
\* its variables.
GatherResume(rz, database, cl, qc, items, collection) ==
    LET rows == ExecuteQuery(database, cl.table, items, qc, cl.where)
        ran == QcRun(qc, rows)
        merged == MergeIntoCallerCollection(cl.opts, collection, ran.models)
        resumed == GatherModelFksResume(rz, cl.table, cl.opts, ran)
    IN [rizzult |-> ran,
        callerCollection |-> merged,
        gather |-> IF resumed.threw THEN Undefined ELSE [items |-> resumed.value],
        outcome |->
            IF resumed.threw THEN [status |-> "rejected", error |-> resumed.error]
            ELSE LET wrapped == WrapperFinish(rz, cl.kind, cl.table, cl.opts, resumed.value,
                                    WrapperModelCollection(cl.opts, merged, ran.models))
                 IN IF wrapped.threw THEN [status |-> "rejected", error |-> wrapped.error]
                    ELSE [status |-> "resolved", value |-> wrapped.value]]

InitPair ==
    /\ rizzolver = NewKyselyRizzolver("blog", Undefined)
    /\ db \in PairDbs
    /\ damage = 0
    /\ pc = <<"idle", "idle">>
    /\ call = <<NoCall, NoCall>>
    /\ qb = <<NewQueryContext, NewQueryContext>>
    /\ gatherItems = <<<<>>, <<>>>>
    /\ queries = 0
    /\ callerCollection = <<NewModelCollection(EmptyObj), NewModelCollection(EmptyObj)>>
    /\ rizzult = <<Undefined, Undefined>>
    /\ gather = <<Undefined, Undefined>>
    /\ outcome = <<Pending, Pending>>

\* Call c runs up to its await.
PairStart(c, kind, table, where, opts) ==
    /\ pc[c] = "idle"
    /\ call' = [call EXCEPT ![c] = [kind |-> kind, table |-> table, where |-> where,
                                    opts |-> opts, peer |-> "idle"]]
    /\ LET plan == GatherPlanIn(rizzolver, ContextSelectors(qb[3 - c]), table, opts)
       IN IF plan.threw
          THEN /\ pc' = [pc EXCEPT ![c] = "done"]
               /\ outcome' = [outcome EXCEPT ![c] = [status |-> "rejected",
                                                     error |-> plan.error]]
               /\ UNCHANGED <<qb, gatherItems, queries>>
          ELSE /\ pc' = [pc EXCEPT ![c] = "await"]
               /\ qb' = [qb EXCEPT ![c] = plan.qb]
               /\ gatherItems' = [gatherItems EXCEPT ![c] = plan.result]
               /\ queries' = queries + QueriesIssued(plan.result)
               /\ UNCHANGED outcome
    /\ UNCHANGED <<rizzolver, db, damage, callerCollection, rizzult, gather>>

\* The query of call c resolves and the call runs to its end; call[c].peer
\* records where the other call was at that moment.
PairReturns(c) ==
    /\ pc[c] = "await"
    /\ LET resumed == GatherResume(rizzolver, db, call[c], qb[c], gatherItems[c],
                                   callerCollection[c])
       IN /\ rizzult' = [rizzult EXCEPT ![c] = resumed.rizzult]
          /\ callerCollection' = [callerCollection EXCEPT ![c] = resumed.callerCollection]
          /\ gather' = [gather EXCEPT ![c] = resumed.gather]
          /\ outcome' = [outcome EXCEPT ![c] = resumed.outcome]
    /\ call' = [call EXCEPT ![c].peer = pc[3 - c]]
    /\ pc' = [pc EXCEPT ![c] = "done"]
    /\ UNCHANGED <<rizzolver, db, damage, qb, gatherItems, queries>>

PairCall ==
    \E c \in Calls, kind \in PairKinds, table \in DOMAIN db, where \in PairWheres,
       opts \in PairOpts : PairStart(c, kind, table, where, opts)

PairReturn == \E c \in Calls : PairReturns(c)

NextPair ==
    \/ PairCall
    \/ PairReturn

SpecPair == InitPair /\ [][NextPair]_vars

\* What call cl leaves behind when it is the only call: planned in a context
\* of its own and resumed at once, on an empty collection of its own.
GatherAlone(cl) ==
    LET plan == GatherPlan(rizzolver, cl.table, cl.opts)
    IN IF plan.threw
       THEN [rizzult |-> Undefined, callerCollection |-> NewModelCollection(EmptyObj),
             gather |-> Undefined,
             outcome |-> [status |-> "rejected", error |-> plan.error]]
       ELSE GatherResume(rizzolver, db, cl, plan.qb, plan.result,
                         NewModelCollection(EmptyObj))

RECURSIVE ValidRootsOf(_)
ValidRootsOf(roots) ==
    IF roots = <<>> THEN <<>>
    ELSE IF DbOwnBrokenRefs(call.table, Head(roots), CallDepth) = {}
    THEN <<Head(roots)>> \o ValidRootsOf(Tail(roots))
    ELSE ValidRootsOf(Tail(roots))

\* The element is the reconstructed model of root row `id`.
IsModelOfRoot(model, id) ==
    /\ model # Null
    /\ model["id"] = Num(id)
    /\ model["__table"] = Str(call.table)
    /\ model["__fkDepth"] = Num(CallDepth)
    /\ DbBrokenRefs(call.table, id, CallDepth) = {} =>
          model = ExpectedTree(call.table, id, CallDepth)

(***************************************************************************)
(* C21: under `null` gatherModelFks returns one element per row of the     *)
(* query, in the same order; element i is null exactly when root row i was *)
(* rejected as invalid and is the reconstructed model otherwise.  Under    *)
(* `omit` it returns the same array without the nulls, the others in the   *)
(* same relative order.                                                    *)
(***************************************************************************)
C21_NullKeepsIndexAlignment ==
    (Done /\ PlanningCompleted) =>
        /\ CallPolicy = "null" =>
              /\ GatherReturned
              /\ Len(gather.items) = Len(MatchedRoots)
              /\ \A j \in 1..Len(MatchedRoots) :
                    IF DbOwnBrokenRefs(call.table, MatchedRoots[j], CallDepth) # {}
                    THEN gather.items[j] = Null
                    ELSE IsModelOfRoot(gather.items[j], MatchedRoots[j])
        /\ CallPolicy = "omit" =>
              /\ GatherReturned
              /\ Len(gather.items) = Len(ValidRootsOf(MatchedRoots))
              /\ \A k \in 1..Len(gather.items) :
                    IsModelOfRoot(gather.items[k], ValidRootsOf(MatchedRoots)[k])

\* Under `null`, two rows: the first was rejected and is null, the second is a model.
C21_Witness ==
    /\ GatherReturned
    /\ CallPolicy = "null"
    /\ Len(MatchedRoots) = 2
    /\ Len(gather.items) = 2
    /\ gather.items[1] = Null
    /\ gather.items[2] # Null

(***************************************************************************)
(* A specification of newSelector on its own: a caller creates selectors   *)
(* from table names, aliases and column lists of its choice.  `call` holds *)
(* the arguments of the last call and `outcome` what it returned or threw. *)
(***************************************************************************)
SelectorTables == {"user", "media_item", "post", "non_existent"}

SelectorAliases == {"u", "mi", "p", "fk1", ""}

SelectorColumns ==
    {Undefined,
     [items |-> <<"id">>],
     [items |-> <<"id", "name">>],
     [items |-> <<"id", "url">>],
     [items |-> <<"id", "non_existent">>],
     [items |-> <<"non_existent">>]}

\* newSelector(rizzolver, tableName, tableAlias, columns): the column names are
\* `columns ?? tableToColumns[tableName]`; calling map on undefined throws.
NewSelectorCall(rz, tableName, tableAlias, columns) ==
    IF columns = Undefined /\ tableName \notin DOMAIN rz.tableToColumns
    THEN Threw([name |-> "TypeError",
                message |-> "Cannot read properties of undefined (reading 'map')"])
    ELSE Returned(NewSelector(rz, tableName, tableAlias,
                              IF columns = Undefined THEN rz.tableToColumns[tableName]
                              ELSE columns.items))

InitSelector ==
    /\ rizzolver = NewKyselyRizzolver("blog", Undefined)
    /\ db = BaseDb("blog")
    /\ InitCall

CreateSelector(tableName, tableAlias, columns) ==
    /\ call' = [kind |-> "newSelector", table |-> tableName, alias |-> tableAlias,
                columns |-> columns]
    /\ outcome' = NewSelectorCall(rizzolver, tableName, tableAlias, columns)
    /\ UNCHANGED <<rizzolver, db, damage, pc, qb, gatherItems, queries, callerCollection,
                   rizzult, gather>>

NextSelector ==
    \E tableName \in SelectorTables, tableAlias \in SelectorAliases,
       columns \in SelectorColumns : CreateSelector(tableName, tableAlias, columns)

SpecSelector == InitSelector /\ [][NextSelector]_vars

\* The requested columns that the table does not declare.
UndeclaredColumns(tableName, columns) ==
    IF columns = Undefined \/ tableName \notin DOMAIN rizzolver.tableToColumns THEN {}
    ELSE {columns.items[j] : j \in 1..Len(columns.items)}
         \ {rizzolver.tableToColumns[tableName][j] :
              j \in 1..Len(rizzolver.tableToColumns[tableName])}

(***************************************************************************)
(* C22: newSelector validates its inputs: it throws 'Column "<c>" does not *)
(* exist in table "<t>"' for a requested column the table does not         *)
(* declare, "Table '<t>' not found in schema" for a table the schema does  *)
(* not declare, and "Invalid alias ''" for an empty alias; no selector is  *)
(* returned in these cases.                                                *)
(***************************************************************************)
C22_NewSelectorValidates ==
    call.kind = "newSelector" =>
        /\ call.table \notin DOMAIN rizzolver.tableToColumns =>
              /\ outcome.threw
              /\ outcome.error.message = "Table '" \o call.table \o "' not found in schema"
        /\ (call.table \in DOMAIN rizzolver.tableToColumns
            /\ UndeclaredColumns(call.table, call.columns) # {}) =>
              /\ outcome.threw
              /\ \E c \in UndeclaredColumns(call.table, call.columns) :
                    outcome.error.message
                    = "Column \"" \o c \o "\" does not exist in table \"" \o call.table \o "\""
        /\ (call.table \in DOMAIN rizzolver.tableToColumns
            /\ UndeclaredColumns(call.table, call.columns) = {}
            /\ call.alias = "") =>
              /\ outcome.threw
              /\ outcome.error.message = "Invalid alias ''"

(***************************************************************************)
(* A specification of the gather calls on rizzolvers built with every      *)
(* default gather depth: builder.defaultGatherDepth(d).build(...) for d in *)
(* 0..3, or build(...) alone.  Calls are made with an explicit depth or    *)
(* with none.                                                              *)
(***************************************************************************)
DefaultGatherDepths == {Undefined} \cup {Num(d) : d \in ValidFkDepth}

\* No options, or a depth alone.
DepthOnlyOpts ==
    {NoOpts}
    \cup [depth : {Num(d) : d \in ValidFkDepth},
          onInvalidModel : {Undefined},
          hasModelCollection : {FALSE}]

InitDepth ==
    /\ \E s \in SchemaNames, d \in DefaultGatherDepths :
          /\ rizzolver = NewKyselyRizzolver(s, d)
          /\ db = BaseDb(s)
    /\ InitCall

GatherCallDepth ==
    /\ pc = "idle"
    /\ \E kind \in GatherKinds, table \in DOMAIN db, opts \in DepthOnlyOpts :
          GatherStart(kind, table, {1}, opts)

NextDepth ==
    \/ GatherCallDepth
    \/ QueryReturns

SpecDepth == InitDepth /\ [][NextDepth]_vars

\* The root models of the payload of a resolved call.
PayloadRoots ==
    IF call.kind = "gatherSome"
    THEN {outcome.value.result.items[j] : j \in 1..Len(outcome.value.result.items)}
    ELSE {outcome.value.result} \ {Undefined}

(***************************************************************************)
(* C23: for every gatherOne, gatherOneX and gatherSome call the `depth`    *)
(* field of the result equals the depth at which the query was planned and *)
(* the payload reconstructed (the root payload's __fkDepth), with an       *)
(* explicit opts.depth or none, for every defaultGatherDepth 0..3.         *)
(***************************************************************************)
C23_ResultDepthIsGatherDepth ==
    Resolved =>
        /\ outcome.value.depth = CallDepth
        /\ \A root \in PayloadRoots : root["__fkDepth"] = Num(outcome.value.depth)

(***************************************************************************)
(* A specification of the gather calls on the "keyed" schema, whose edge   *)
(* user.avatar_code references media_item.code.  The database is the base  *)
(* content: every foreign-key value matches exactly one target row.        *)
(***************************************************************************)
InitKeyed ==
    /\ rizzolver = NewKyselyRizzolver("keyed", Undefined)
    /\ db = BaseDb("keyed")
    /\ InitCall

InitThreaded ==
    /\ rizzolver = NewKyselyRizzolver("threaded", Undefined)
    /\ db = BaseDb("threaded")
    /\ InitCall

NextGather ==
    \/ GatherCall
    \/ QueryReturns

SpecKeyed == InitKeyed /\ [][NextGather]_vars

SpecThreaded == InitThreaded /\ [][NextGather]_vars

\* Every foreign-key value that expects a row matches the toColumn of exactly
\* one row of the referenced table.
DbConsistent ==
    \A table \in DOMAIN db : \A id \in DOMAIN db[table] :
        \A i \in 1..Len(MyFkDefs(rizzolver.fkDefs, table)) :
            LET e == MyFkDefs(rizzolver.fkDefs, table)[i]
                v == db[table][id][e.myColumn]
            IN ExpectsRow(v) =>
                  Cardinality({o \in DOMAIN db[e.otherTable] :
                                  db[e.otherTable][o][e.otherColumn] = v}) = 1

(***************************************************************************)
(* C24: planner and reconstructor agree: for every schema the foreign-key  *)
(* builder accepts, edges to a column other than `id` included, and every  *)
(* database in which each foreign-key value matches the toColumn of        *)
(* exactly one target row, a gather at any depth never detects an invalid  *)
(* reference: it never raises under `throw` and never drops a root under   *)
(* `omit`.                                                                 *)
(***************************************************************************)
C24_PlannerAndReconstructorAgree ==
    (Done /\ PlanningCompleted /\ DbConsistent) =>
        /\ CallPolicy = "throw" => GatherReturned
        /\ CallPolicy = "omit" =>
              /\ GatherReturned
              /\ Len(gather.items) = Len(MatchedRoots)

\* In the model tree, no slot of an edge declared non-nullable is null.
RECURSIVE RequiredSlotsFilled(_, _)
RequiredSlotsFilled(model, table) ==
    \A i \in 1..Len(MyFkDefs(rizzolver.fkDefs, table)) :
        LET e == MyFkDefs(rizzolver.fkDefs, table)[i]
        IN e.fkName \in DOMAIN model =>
              /\ ~e.isNullable => model[e.fkName] # Null
              /\ model[e.fkName] # Null => RequiredSlotsFilled(model[e.fkName], e.otherTable)

(***************************************************************************)
(* C25: in every model a gather returns under `omit` or `throw` at depth   *)
(* >= 1, the slot of an edge declared non-nullable is never null: it holds *)
(* a reconstructed model of the referenced table.                          *)
(***************************************************************************)
C25_RequiredSlotNeverNull ==
    (GatherReturned /\ CallPolicy \in {"omit", "throw"} /\ CallDepth >= 1) =>
        \A j \in 1..Len(gather.items) :
            gather.items[j] # Null => RequiredSlotsFilled(gather.items[j], call.table)

(***************************************************************************)
(* C26: when a gather call fails during reconstruction, a model collection *)
(* the caller supplied in the options is left exactly as it was before the *)
(* call (here: empty): no row fetched by the failed call has been merged   *)
(* into it.                                                                *)
(***************************************************************************)
C26_FailedCallLeavesCollection ==
    (Rejected /\ PlanningCompleted /\ call.opts.hasModelCollection /\ gather = Undefined) =>
        Keys(callerCollection) = {}

\* The joins of the expansion of `table`, bound to `alias`, to depthLeft, from
\* its i-th edge on, appended to acc: each edge is joined to the alias of the
\* node it starts from, and the k-th join is named fk<k>.
RECURSIVE TreeJoins(_, _, _, _, _)
TreeJoins(table, alias, i, depthLeft, acc) ==
    IF depthLeft <= 0 \/ i > Len(MyFkDefs(rizzolver.fkDefs, table)) THEN acc
    ELSE LET e == MyFkDefs(rizzolver.fkDefs, table)[i]
             newAlias == "fk" \o ToString(Len(acc) + 1)
             item == [table |-> e.otherTable, tableAlias |-> newAlias, myAlias |-> alias,
                      myColumn |-> e.myColumn, otherColumn |-> e.otherColumn]
         IN TreeJoins(table, alias, i + 1, depthLeft,
                      TreeJoins(e.otherTable, newAlias, 1, depthLeft - 1, Append(acc, item)))

(***************************************************************************)
(* C27: the planned join list is a well-formed tree: the root keeps its    *)
(* table name as alias, the k-th join gets alias fk<k>, all aliases are    *)
(* distinct, and each join equates the fromColumn of the alias of the node *)
(* the edge starts from (its parent in the expansion) with the toColumn of *)
(* the new alias; also for tables with several edges at every level.       *)
(***************************************************************************)
C27_JoinListIsATree ==
    PlanningCompleted =>
        /\ qb[1].table = [name |-> call.table, alias |-> call.table]
        /\ Len(qb) = 1 + Len(gatherItems)
        /\ \A k \in 1..Len(gatherItems) :
              /\ gatherItems[k].tableAlias = "fk" \o ToString(k)
              /\ qb[k + 1].table = [name |-> gatherItems[k].table,
                                    alias |-> gatherItems[k].tableAlias]
              /\ gatherItems[k].myAlias \in {qb[j].table.alias : j \in 1..k}
        /\ Cardinality({qb[k].table.alias : k \in 1..Len(qb)}) = Len(qb)
        /\ gatherItems = TreeJoins(call.table, call.table, 1, CallDepth, <<>>)

\* A comment gathered at depth 3: the post it references has two edges of its
\* own, and the comment's second edge comes after the post's subtree.
C27_Witness ==
    /\ PlanningCompleted
    /\ rizzolver.schema = "threaded"
    /\ call.table = "comment"
    /\ CallDepth = 3
    /\ Len(gatherItems) = 6
    /\ gatherItems[4].myAlias = "fk1"
    /\ gatherItems[5].myAlias = "comment"

(***************************************************************************)
(* C28: for every table and every numeric id, 0 included, getX(table, id)  *)
(* throws the 'Model not found' error exactly when no model is stored      *)
(* under (table, id) and otherwise returns that model; get(table, id)      *)
(* returns undefined exactly when no model is stored under (table, id),    *)
(* and never the table's whole id map.                                     *)
(***************************************************************************)
C28_LookupByEveryId ==
    call.kind = "lookup" =>
        LET stored == Entry(callerCollection, call.table, ToString(call.id.v))
        IN IF stored = Undefined
           THEN /\ outcome.threw
                /\ outcome.error.message
                   = "Model not found in ModelCollection for table " \o call.table
                     \o " with id " \o ToString(call.id.v)
                /\ "t" \in DOMAIN rizzult
                /\ rizzult = Undefined
           ELSE /\ ~outcome.threw
                /\ outcome.value = stored
                /\ rizzult = stored

(***************************************************************************)
(* A specification of model collections as JavaScript objects that share   *)
(* storage.  A store has a heap of id maps (the objects `collection[table]`*)
(* points to) and, for each object of the scenario, its table -> reference *)
(* properties: `init` is the object a caller passes to newModelCollection, *)
(* `c` the collection made from it, `b` a second collection made from      *)
(* nothing.  The store is kept in `callerCollection`; `gather` keeps the   *)
(* contents `init` had when c was made, and `call` the last operation.     *)
(***************************************************************************)
\* The contents of an object: table -> id map.
Contents(store, name) ==
    [t \in DOMAIN store.objs[name] |-> store.heap[store.objs[name][t]]]

\* newModelCollection(init): `{ ...init }` copies the properties of init, which
\* are references to its id maps.
HeapNewModelCollection(store, name, initName) ==
    [store EXCEPT !.objs = (name :> store.objs[initName]) @@ store.objs]

\* add(table, selectable) on the collection `name`.
HeapAdd(store, name, table, selectable) ==
    IF \/ ~Truthy(selectable)
       \/ "id" \notin DOMAIN selectable
       \/ ~Truthy(selectable["id"])
       \/ ~IsNumber(selectable["id"])
    THEN store
    ELSE LET withTable ==
                 IF table \in DOMAIN store.objs[name] THEN store
                 ELSE [heap |-> Append(store.heap, EmptyObj),
                       objs |-> [store.objs EXCEPT ![name] =
                                    (table :> (Len(store.heap) + 1)) @@ @]]
             ref == withTable.objs[name][table]
             key == ToString(selectable["id"].v)
         IN [withTable EXCEPT !.heap[ref] = (key :> selectable) @@ @]

RECURSIVE HeapAddAll(_, _, _, _, _)
HeapAddAll(store, name, table, entries, ids) ==
    IF ids = <<>> THEN store
    ELSE HeapAddAll(HeapAdd(store, name, table, entries[ToString(Head(ids))]), name, table,
                    entries, Tail(ids))

RECURSIVE HeapAddTables(_, _, _, _)
HeapAddTables(store, name, other, tables) ==
    IF tables = <<>> THEN store
    ELSE HeapAddTables(HeapAddAll(store, name, Head(tables), other[Head(tables)],
                                  ObjNumKeys(other[Head(tables)])),
                       name, other, Tail(tables))

\* name.addCollection(otherName): the loops run over otherName.get().
HeapAddCollection(store, name, otherName) ==
    HeapAddTables(store, name, Contents(store, otherName),
                  KeySeq(DOMAIN Contents(store, otherName)))

\* The objects a caller passes as init: an empty one, and one with a table;
\* `default` is the `{}` the parameter defaults to.
InitObjects ==
    {[heap |-> <<>>, objs |-> [init |-> EmptyObj, default |-> EmptyObj]],
     [heap |-> <<("1" :> [id |-> Num(1), name |-> Str("a")])>>,
      objs |-> [init |-> ("user" :> 1), default |-> EmptyObj]]}

AliasSelectables ==
    {[id |-> Num(1), name |-> Str("b")],
     [id |-> Num(2), name |-> Str("a")],
     [id |-> Num(0), name |-> Str("a")]}

InitAlias ==
    /\ rizzolver = NewKyselyRizzolver("blog", Undefined)
    /\ db = BaseDb("blog")
    /\ damage = 0
    /\ pc = "idle"
    /\ call = NoCall
    /\ qb = NewQueryContext
    /\ gatherItems = <<>>
    /\ queries = 0
    /\ rizzult = Undefined
    /\ outcome = Pending
    /\ \E store \in InitObjects :
          /\ callerCollection = HeapNewModelCollection(
                                    HeapNewModelCollection(store, "c", "init"),
                                    "b", "default")
          /\ gather = Contents(store, "init")

AliasAdd(name, table, selectable) ==
    /\ call' = [kind |-> "add", target |-> name, b |-> Contents(callerCollection, "b")]
    /\ callerCollection' = HeapAdd(callerCollection, name, table, selectable)
    /\ UNCHANGED <<rizzolver, db, damage, pc, qb, gatherItems, queries, rizzult, gather,
                   outcome>>

\* c.addCollection(b)
AliasAddCollection ==
    /\ call' = [kind |-> "addCollection", target |-> "c",
                b |-> Contents(callerCollection, "b")]
    /\ callerCollection' = HeapAddCollection(callerCollection, "c", "b")
    /\ UNCHANGED <<rizzolver, db, damage, pc, qb, gatherItems, queries, rizzult, gather,
                   outcome>>

AliasAddOne ==
    \E name \in {"c", "b"}, table \in StoredTables, selectable \in AliasSelectables :
        AliasAdd(name, table, selectable)

NextAlias ==
    \/ AliasAddOne
    \/ AliasAddCollection

SpecAlias == InitAlias /\ [][NextAlias]_vars

(***************************************************************************)
(* C29: model collections do not alias each other's storage: after         *)
(* c = newModelCollection(init), no add or addCollection on c changes the  *)
(* contents of init, for tables init already has and for new ones; after   *)
(* c.addCollection(b), b is unchanged, and later adds to c never change b. *)
(***************************************************************************)
C29_CollectionsDoNotAlias ==
    /\ Contents(callerCollection, "init") = gather
    /\ (call.kind # "none" /\ call.target = "c") => Contents(callerCollection, "b") = call.b

====
